---- MODULE Spec2Model ----
(***************************************************************************)
(* A model of the mini-framework core: the virtual-DOM renderer and        *)
(* reconciler with its mount controller (framework/dom.js), the reactive   *)
(* state store (framework/state.js) and the hash router                    *)
(* (framework/router.js).  Each subsystem has its own specification:       *)
(* SpecDom, SpecStore and SpecRouter.                                      *)
(***************************************************************************)
EXTENDS Integers, Sequences, FiniteSets, TLC

VARIABLES
  \* ---- mount controller (dom.js, mount) ----
  container,      \* childNodes of the container element: a sequence of live nodes
  currentVNode,   \* the retained virtual tree, or Null after unmount
  domOp,          \* the last mount-controller operation
  pristine,       \* the live DOM before the last update was exactly render(old tree)
  \* ---- state store (state.js, createState) ----
  heap,                \* the objects alive: reference -> mapping from key to value
  state,               \* `state`: the reference of the internal state object
  subscribers,         \* `subscribers`: the callbacks, in subscription order
  computedCache,       \* `computedCache`: name -> cached value
  computedProperties,  \* `computedProperties`: name -> getter
  persistence,         \* `config.persistence`: "none" or a storage adapter
  storage,             \* the persistence backend: the item saved under persistenceKey
  held,                \* the object handed out by the store that the application kept
  trace,               \* what the setState/reset call that just returned did, in order
  reads,               \* the reads of the computed property since the last mutation
  leaked,              \* the last write to a held object changed the store's state
  \* ---- router (router.js, class Router) ----
  routes,          \* `this.routes`: the route entries in registration order
  currentRoute,    \* `this.currentRoute`: NoRoute (null) or {path, params, meta}
  currentHash,     \* `this.currentHash`
  location,        \* window.location.hash without the '#'
  listeners,       \* `this.listeners`: the route-change callbacks
  beforeEach,      \* a beforeEach hook is configured
  notFoundHandler, \* a not-found handler is configured
  started,         \* init() has registered the hashchange listener
  hashEvents,      \* hashchange events the browser has queued
  pending,         \* the transitions suspended at `await this.beforeEach(...)`
  count,           \* transitions begun since the router was last at rest
  rlog,            \* what those transitions did, in order
  \* ---- one call of patch (dom.js 107-130) on a followed live subtree ----
  patchOld,        \* the oldVNode argument
  patchNew,        \* the newVNode argument, Null before the call
  patchDom,        \* the live node given as domElement, followed
  patchOut,        \* the node at that position after the call
  \* ---- one call of createElement (dom.js 21-36) ----
  childArgs,       \* the children arguments
  created,         \* the virtual node returned, Null before the call
  \* ---- one call of render (dom.js 44-98) ----
  renderNode,      \* the vNode argument, Null before the call
  renderInto,      \* the child list of the container argument before the call
  renderOut,       \* that child list now
  renderRet,       \* what the call returned or raised, NotCalled before the call
  \* ---- the custom event system (dom.js 340-433, Events) ----
  evListeners,     \* `Events.listeners`: event name -> callbacks in registration order
  emitted          \* what the last on or emit call did, in order

domVars == <<container, currentVNode, domOp, pristine>>

storeVars == <<heap, state, subscribers, computedCache, computedProperties, persistence, storage,
               held, trace, reads, leaked>>

routerVars == <<routes, currentRoute, currentHash, location, listeners, beforeEach,
                notFoundHandler, started, hashEvents, pending, count, rlog>>

callVars == <<patchOld, patchNew, patchDom, patchOut, childArgs, created,
              renderNode, renderInto, renderOut, renderRet, evListeners, emitted>>

eventVars == <<evListeners, emitted>>

renderVars == <<renderNode, renderInto, renderOut, renderRet>>

vars == <<domVars, storeVars, routerVars, callVars>>

\* the JavaScript values null / undefined, as far as the model tells them apart
Null == [t |-> "null", v |-> ""]
Undefined == [t |-> "undef", v |-> ""]

(***************************************************************************)
(* Attribute values.  A value carries its JavaScript type: a string, a     *)
(* boolean, a function reference or an object (a style mapping, named by   *)
(* the entry of StyleTable it stands for).                                 *)
(***************************************************************************)
Str(s) == [t |-> "str", v |-> s]
Bool(b) == [t |-> "bool", v |-> IF b THEN "true" ELSE "false"]
Fn(f) == [t |-> "fn", v |-> f]
Obj(o) == [t |-> "obj", v |-> o]

EmptyMap == [k \in {} |-> Undefined]

StyleTable ==
  [s1 |-> [color |-> "red"],
   s2 |-> [margin |-> "0"]]

StyleOf(name) == StyleTable[name]

\* insertion order of the keys of an attribute object
AttrOrder == <<"id", "className", "disabled", "style", "onClick", "onInput">>

Keys(attrs) == SelectSeq(AttrOrder, LAMBDA k : k \in DOMAIN attrs)

Get(attrs, key) == IF key \in DOMAIN attrs THEN attrs[key] ELSE Undefined

\* key.startsWith('on')
StartsWithOn(key) == key \in {"onClick", "onInput"}

\* key.slice(2).toLowerCase()
EventName(key) ==
  CASE key = "onClick" -> "click"
    [] key = "onInput" -> "input"
    [] OTHER -> key

\* String(value), as setAttribute applies it to its second argument
ToStr(value) ==
  CASE value.t = "str" -> value.v
    [] value.t = "bool" -> value.v
    [] value.t = "fn" -> "function " \o value.v
    [] value.t = "obj" -> "[object Object]"
    [] value.t = "null" -> "null"
    [] OTHER -> "undefined"

\* JavaScript truthiness
Truthy(value) ==
  CASE value.t = "str" -> value.v # ""
    [] value.t = "bool" -> value.v = "true"
    [] value.t \in {"fn", "obj"} -> TRUE
    [] OTHER -> FALSE

\* value !== other
StrictNeq(a, b) == a.t # b.t \/ a.v # b.v

(***************************************************************************)
(* Virtual nodes.                                                          *)
(***************************************************************************)
TextNode(s) == [type |-> "text", value |-> s]
Element(tag, attrs, children) == [tag |-> tag, attrs |-> attrs, children |-> children]

IsText(vNode) == "type" \in DOMAIN vNode /\ vNode.type = "text"
\* vNode.tag, undefined on a text node
TagOf(vNode) == IF "tag" \in DOMAIN vNode THEN vNode.tag ELSE "undefined"

(***************************************************************************)
(* The platform DOM.  A live node is a text node or an element with its    *)
(* attributes, inline style, registered listeners and child nodes.         *)
(***************************************************************************)
NoNode == [kind |-> "none"]

CreateTextNode(s) == [kind |-> "text", text |-> s]

\* A node that is being followed carries its identity (id) and the calls made on it
\* (calls); a node created since then carries neither.
Followed(node) == "calls" \in DOMAIN node

\* the node after a call on it
Touch(node, call) == IF Followed(node) THEN [node EXCEPT !.calls = Append(@, call)] ELSE node

CreateDomElement(tag) ==
  [kind |-> "elem", tag |-> tag, attrs |-> EmptyMap, style |-> EmptyMap,
   listeners |-> <<>>, children |-> <<>>]

\* element.setAttribute(name, value); the style attribute is the inline style
SetAttribute(el, name, s) ==
  Touch(IF name = "style"
          THEN [el EXCEPT !.style = [k \in {"cssText"} |-> s]]
          ELSE [el EXCEPT !.attrs = [k \in DOMAIN el.attrs \cup {name} |->
                                       IF k = name THEN s ELSE el.attrs[k]]],
        <<"setAttribute", name>>)

\* element.removeAttribute(name)
RemoveAttribute(el, name) ==
  Touch(IF name = "style"
          THEN [el EXCEPT !.style = EmptyMap]
          ELSE [el EXCEPT !.attrs = [k \in DOMAIN el.attrs \ {name} |-> el.attrs[k]]],
        <<"removeAttribute", name>>)

\* Object.assign(element.style, mapping)
AssignStyle(el, mapping) ==
  Touch([el EXCEPT !.style = [k \in DOMAIN el.style \cup DOMAIN mapping |->
                                IF k \in DOMAIN mapping THEN mapping[k] ELSE el.style[k]]],
        <<"style", "assign">>)

HasListener(el, event, value) ==
  \E i \in 1..Len(el.listeners) : el.listeners[i] = <<event, value.v>>

\* element.addEventListener(event, fn): a listener already registered is not added again
AddEventListener(el, event, value) ==
  Touch(IF value.t # "fn" \/ HasListener(el, event, value)
          THEN el
          ELSE [el EXCEPT !.listeners = Append(@, <<event, value.v>>)],
        <<"addEventListener", event>>)

\* element.removeEventListener(event, fn): a listener not registered is ignored
RemoveEventListener(el, event, value) ==
  Touch(IF value.t # "fn"
          THEN el
          ELSE [el EXCEPT !.listeners = SelectSeq(@, LAMBDA l : l # <<event, value.v>>)],
        <<"removeEventListener", event>>)

(***************************************************************************)
(* render (dom.js 44-98).  Render(vNode) is the node render creates, or    *)
(* NoNode when it returns null; RenderInto appends it to a child list, as  *)
(* render does with container.appendChild.                                 *)
(***************************************************************************)
\* one step of the attribute loop of render
RenderAttr(el, key, value) ==
  IF StartsWithOn(key) /\ value.t = "fn"
    THEN AddEventListener(el, EventName(key), value)
  ELSE IF key = "style" /\ value.t \in {"obj", "null"}
    THEN IF value.t = "obj" THEN AssignStyle(el, StyleOf(value.v)) ELSE el
  ELSE IF key = "className"
    THEN SetAttribute(el, "class", ToStr(value))
  ELSE IF value.t = "bool"
    THEN IF value.v = "true" THEN SetAttribute(el, key, "") ELSE el
  ELSE IF value.t \notin {"null", "undef"}
    THEN SetAttribute(el, key, ToStr(value))
  ELSE el

RECURSIVE RenderAttrs(_, _, _)
RenderAttrs(el, attrs, keys) ==
  IF keys = <<>>
    THEN el
    ELSE RenderAttrs(RenderAttr(el, Head(keys), attrs[Head(keys)]), attrs, Tail(keys))

\* the TypeError of reading a property of null or undefined
RenderFailed == [kind |-> "TypeError"]

RECURSIVE Render(_)
RECURSIVE RenderChildren(_, _)

\* vNode.children.forEach(child => render(child, element)); <<RenderFailed>> when the
\* render of a child raised
RenderChildren(childNodes, children) ==
  IF children = <<>>
    THEN childNodes
    ELSE LET node == Render(Head(children))
         IN  IF node = RenderFailed
               THEN <<RenderFailed>>
               ELSE RenderChildren(IF node = NoNode THEN childNodes
                                                    ELSE Append(childNodes, node),
                                   Tail(children))

Render(vNode) ==
  \* vNode.type of null or undefined (dom.js 46)
  IF vNode = Null \/ vNode = Undefined
    THEN RenderFailed
  ELSE IF IsText(vNode)
    THEN CreateTextNode(vNode.value)
  \* if (!vNode || !vNode.tag) return null
  ELSE IF TagOf(vNode) = "undefined"
    THEN NoNode
  ELSE LET \* if (vNode.attrs)
           attrs == IF "attrs" \in DOMAIN vNode THEN vNode.attrs ELSE EmptyMap
           el == RenderAttrs(CreateDomElement(vNode.tag), attrs, Keys(attrs))
           \* if (vNode.children && vNode.children.length > 0)
           kids == IF "children" \in DOMAIN vNode
                     THEN RenderChildren(<<>>, vNode.children) ELSE <<>>
       IN  IF kids = <<RenderFailed>> THEN RenderFailed ELSE [el EXCEPT !.children = kids]

\* the child list of the container after render(vNode, container); <<RenderFailed>> when
\* the call raised
RenderInto(childNodes, vNode) ==
  LET node == Render(vNode)
  IN  IF node = RenderFailed THEN <<RenderFailed>>
      ELSE IF node = NoNode THEN childNodes ELSE Append(childNodes, node)

(***************************************************************************)
(* updateAttributes (dom.js 138-183).                                      *)
(***************************************************************************)
\* RemoveOldAttr without listener de-registration
RemoveOldAttr_KeepListener(el, attr, newAttrs, oldAttrs) ==
  IF ~StartsWithOn(attr) /\ attr \notin DOMAIN newAttrs
    THEN RemoveAttribute(el, attr)
    ELSE el

\* one step of the first loop: old attributes are taken off the element
RemoveOldAttr(el, attr, newAttrs, oldAttrs) ==
  IF StartsWithOn(attr)
    THEN RemoveEventListener(el, EventName(attr), oldAttrs[attr])
  ELSE IF attr \notin DOMAIN newAttrs
    THEN RemoveAttribute(el, attr)
  ELSE el

\* one step of the second loop: new attributes are written
\* a second loop that sets nothing
SetNewAttr_Skip(el, attr, value, oldAttrs) == el

SetNewAttr(el, attr, value, oldAttrs) ==
  IF StartsWithOn(attr) /\ value.t = "fn"
    THEN AddEventListener(
           IF Truthy(Get(oldAttrs, attr))
             THEN RemoveEventListener(el, EventName(attr), Get(oldAttrs, attr))
             ELSE el,
           EventName(attr), value)
  ELSE IF attr = "style" /\ value.t \in {"obj", "null"}
    THEN IF value.t = "obj"
           THEN AssignStyle(RemoveAttribute(el, "style"), StyleOf(value.v))
           ELSE RemoveAttribute(el, "style")
  ELSE IF attr = "className"
    THEN SetAttribute(el, "class", ToStr(value))
  ELSE IF value.t = "bool"
    THEN IF value.v = "true" THEN SetAttribute(el, attr, "") ELSE RemoveAttribute(el, attr)
  ELSE IF StrictNeq(value, Get(oldAttrs, attr))
    THEN SetAttribute(el, attr, ToStr(value))
  ELSE el

RECURSIVE RemoveOldAttrs(_, _, _, _)
RemoveOldAttrs(el, keys, newAttrs, oldAttrs) ==
  IF keys = <<>>
    THEN el
    ELSE RemoveOldAttrs(RemoveOldAttr(el, Head(keys), newAttrs, oldAttrs),
                        Tail(keys), newAttrs, oldAttrs)

RECURSIVE SetNewAttrs(_, _, _, _)
SetNewAttrs(el, keys, newAttrs, oldAttrs) ==
  IF keys = <<>>
    THEN el
    ELSE SetNewAttrs(SetNewAttr(el, Head(keys), newAttrs[Head(keys)], oldAttrs),
                     Tail(keys), newAttrs, oldAttrs)

UpdateAttributes(el, newAttrs, oldAttrs) ==
  SetNewAttrs(RemoveOldAttrs(el, Keys(oldAttrs), newAttrs, oldAttrs),
              Keys(newAttrs), newAttrs, oldAttrs)

(***************************************************************************)
(* patch and updateChildren (dom.js 107-130, 191-212).  Patch(new, old,    *)
(* dom) is the node at dom's position in its parent afterwards: dom itself *)
(* updated in place, or the node that replaced it.  PatchFailed stands for *)
(* the TypeError of reading a property of a live node that does not exist. *)
(***************************************************************************)
PatchFailed == [kind |-> "TypeError"]
\* a child list whose update raised
FailedList == <<PatchFailed>>
IsFailedList(live) == Len(live) > 0 /\ live[1] = PatchFailed

RECURSIVE Patch(_, _, _)
RECURSIVE UpdateChildren(_, _, _, _, _)

\* an update of the children that leaves the child list as it is
UpdateChildren_Untouched(live, childNodes, newChildren, oldChildren, i) == live

\* a patch that leaves the live node where it is
Patch_KeepNode(newVNode, oldVNode, domElement) == domElement

\* the two loops of updateChildren over i; childNodes is the array taken on entry,
\* live the parent's child list as mutated so far
UpdateChildren(live, childNodes, newChildren, oldChildren, i) ==
  IF IsFailedList(live)
    THEN FailedList
  ELSE IF i <= Len(newChildren)
    THEN IF i <= Len(oldChildren)
           THEN IF i > Len(childNodes)
                  THEN FailedList
                  ELSE LET node == Patch(newChildren[i], oldChildren[i], childNodes[i])
                       IN  IF node = PatchFailed
                             THEN FailedList
                             ELSE UpdateChildren([live EXCEPT ![i] = node], childNodes,
                                                 newChildren, oldChildren, i + 1)
           ELSE UpdateChildren(RenderInto(live, newChildren[i]), childNodes,
                               newChildren, oldChildren, i + 1)
  ELSE IF i <= Len(oldChildren)
    THEN IF i > Len(childNodes)
           THEN FailedList
           ELSE UpdateChildren(
                  \* parent.removeChild(childNodes[i]): the nodes before it stay in place
                  SubSeq(live, 1, Len(newChildren)) \o
                    SubSeq(live, Len(newChildren) + 2, Len(live)),
                  childNodes, newChildren, oldChildren, i + 1)
  ELSE live

Patch(newVNode, oldVNode, domElement) ==
  IF oldVNode = Null \/ TagOf(oldVNode) # TagOf(newVNode)
    THEN \* parentNode.replaceChild(null, domElement) raises
         IF Render(newVNode) = NoNode THEN PatchFailed ELSE Render(newVNode)
  ELSE IF IsText(newVNode)
    THEN \* nodeValue of an element is null and cannot be set
         IF domElement.kind = "text" /\ domElement.text # newVNode.value
           THEN Touch([domElement EXCEPT !.text = newVNode.value], <<"nodeValue", "write">>)
           ELSE domElement
  ELSE LET \* newVNode.attrs || {}, newVNode.children || []
           newAttrs == IF "attrs" \in DOMAIN newVNode THEN newVNode.attrs ELSE EmptyMap
           oldAttrs == IF "attrs" \in DOMAIN oldVNode THEN oldVNode.attrs ELSE EmptyMap
           newChildren == IF "children" \in DOMAIN newVNode THEN newVNode.children ELSE <<>>
           oldChildren == IF "children" \in DOMAIN oldVNode THEN oldVNode.children ELSE <<>>
       IN  IF domElement.kind = "text"
             \* on a live text node: with nothing to set and no children on either side
             \* both calls do nothing; the other cases are not among the inputs
             THEN IF newAttrs = EmptyMap /\ oldAttrs = EmptyMap
                       /\ newChildren = <<>> /\ oldChildren = <<>>
                    THEN domElement
                    ELSE PatchFailed
             ELSE LET el == UpdateAttributes(domElement, newAttrs, oldAttrs)
                      kids == UpdateChildren(el.children, el.children, newChildren,
                                             oldChildren, 1)
                  IN  IF IsFailedList(kids) THEN PatchFailed ELSE [el EXCEPT !.children = kids]

(***************************************************************************)
(* The trees the application hands to mount and update.  Every child is a  *)
(* Node: a Text node or an Element whose attribute values are strings,     *)
(* booleans, handler functions or a style mapping.                         *)
(***************************************************************************)
MaxChildren == 2

SeqsUpTo(S, n) == UNION {[1..k -> S] : k \in 0..n}

AttrChoices ==
  {EmptyMap,
   [id |-> Str("x")],
   [className |-> Str("c")],
   [disabled |-> Bool(TRUE)],
   [disabled |-> Bool(FALSE)],
   [style |-> Obj("s1")],
   [id |-> Str("y"), style |-> Obj("s2")],
   [onClick |-> Fn("f1")],
   [onClick |-> Fn("f2"), onInput |-> Fn("f1")]}

LeafNodes ==
  {TextNode("a"),
   Element("span", [onClick |-> Fn("f1")], <<TextNode("a")>>),
   Element("span", [id |-> Str("y"), onClick |-> Fn("f2")], <<TextNode("b")>>)}

Trees ==
  {Element("div", attrs, children) :
     attrs \in AttrChoices, children \in SeqsUpTo(LeafNodes, MaxChildren)}
  \cup {Element("span", EmptyMap, <<>>)}

(***************************************************************************)
(* mount (dom.js 229-265): the controller's update and unmount.            *)
(***************************************************************************)
\* mount(vNode, container): the container is cleared and vNode rendered into it
DomInit ==
  \E vNode \in Trees :
    /\ container = RenderInto(<<>>, vNode)
    /\ currentVNode = vNode
    /\ domOp = "mount"
    /\ pristine = TRUE

\* an update that renders the new tree beside what the container holds
UpdateResult_Beside(newVNode) == RenderInto(container, newVNode)

\* the child list of the container after update(newVNode)
UpdateResult(newVNode) ==
  IF container # <<>>
    THEN LET node == Patch(newVNode, currentVNode, container[1])
         IN  IF node = PatchFailed THEN FailedList ELSE <<node>> \o Tail(container)
    ELSE RenderInto(<<>>, newVNode)

Update(newVNode) ==
  LET result == UpdateResult(newVNode)
  IN  /\ ~IsFailedList(result)
      /\ pristine' = (currentVNode # Null /\ container = <<Render(currentVNode)>>)
      /\ container' = result
      /\ currentVNode' = newVNode
      /\ domOp' = "update"
      /\ UNCHANGED <<storeVars, routerVars, callVars>>

Unmount ==
  /\ container' = <<>>
  /\ currentVNode' = Null
  /\ domOp' = "unmount"
  /\ pristine' = FALSE
  /\ UNCHANGED <<storeVars, routerVars, callVars>>

DomNext ==
  \/ \E newVNode \in Trees : Update(newVNode)
  \/ Unmount


(***************************************************************************)
(* One call of patch, looked at closely.  The live subtree is the one      *)
(* render made of a tree; each of its nodes is followed: it carries its    *)
(* place in that subtree as its identity, and the calls patch makes on it. *)
(***************************************************************************)
RECURSIVE Traced(_, _)
\* the node and its descendants, followed; path is the node's place
Traced(node, path) ==
  IF node.kind = "text"
    THEN [kind |-> "text", text |-> node.text, id |-> path, calls |-> <<>>]
    ELSE [kind |-> "elem", tag |-> node.tag, attrs |-> node.attrs, style |-> node.style,
          listeners |-> node.listeners,
          children |-> [i \in 1..Len(node.children) |->
                          Traced(node.children[i], Append(path, i))],
          id |-> path, calls |-> <<>>]

\* the trees given to that call: children that are text nodes of either value, or an
\* element with a handler
PatchLeaves ==
  {TextNode("a"), TextNode("b"),
   Element("span", [onClick |-> Fn("f1")], <<TextNode("a")>>)}

PatchTrees ==
  {Element("div", attrs, children) :
     attrs \in AttrChoices, children \in SeqsUpTo(PatchLeaves, MaxChildren)}
  \cup {Element("span", EmptyMap, <<>>)}

\* render(tree, parent) has run, and patch is about to be called on the node it made:
\* with tree as the old node, or with no old node
PatchInit ==
  \E tree \in PatchTrees :
    /\ patchDom = Traced(Render(tree), <<>>)
    /\ patchOld \in {tree, Null}
    /\ patchNew = Null
    /\ patchOut = NoNode

\* patch(newVNode, patchOld, patchDom)
PatchCall(newVNode) ==
  /\ patchNew = Null
  /\ patchNew' = newVNode
  /\ patchOut' = Patch(newVNode, patchOld, patchDom)
  /\ UNCHANGED <<patchOld, patchDom, childArgs, created, renderVars, eventVars>>
  /\ UNCHANGED <<domVars, storeVars, routerVars>>

PatchNext == \E newVNode \in PatchTrees : PatchCall(newVNode)

(***************************************************************************)
(* Properties of the reconciler and the mount controller.                  *)
(***************************************************************************)
Mounted == domOp \in {"mount", "update"} /\ container # <<>>

\* C1: if the live subtree was produced by render(old), then after
\* patch(new, old, dom) it equals a fresh render(new): same tags, attributes,
\* style, listeners, text values and children.
C1_PatchEqualsFreshRender ==
  (domOp = "update" /\ pristine) => container = <<Render(currentVNode)>>

\* the (event name, function) pairs of the event-prefixed function attributes
HandlerPairs(attrs) ==
  {<<EventName(k), attrs[k].v>> : k \in {a \in DOMAIN attrs : StartsWithOn(a) /\ attrs[a].t = "fn"}}

RECURSIVE ListenersMatch(_, _)
\* the live node carries exactly the listeners its virtual node asks for, each once,
\* and so does every descendant
ListenersMatch(node, vNode) ==
  IF IsText(vNode)
    THEN node.kind = "text"
    ELSE /\ node.kind = "elem"
         /\ {node.listeners[i] : i \in 1..Len(node.listeners)} = HandlerPairs(vNode.attrs)
         /\ Len(node.listeners) = Cardinality(HandlerPairs(vNode.attrs))
         /\ Len(node.children) = Len(vNode.children)
         /\ \A i \in 1..Len(vNode.children) :
              ListenersMatch(node.children[i], vNode.children[i])

\* C7: after mount and any sequence of updates, the listeners registered on each live
\* element are exactly the handler attributes of the corresponding node of the latest
\* tree: none from an earlier tree remains and none is registered twice.
C7_ListenersFollowLatestTree ==
  Mounted => ListenersMatch(container[1], currentVNode)

\* an update has re-bound the root's handlers and patched a child that has a handler
C7_Witness ==
  /\ domOp = "update"
  /\ ~pristine
  /\ Len(container) = 1
  /\ container[1].listeners = <<<<"click", "f2">>, <<"input", "f1">>>>
  /\ Len(container[1].children) = 2
  /\ container[1].children[2].kind = "elem"
  /\ container[1].children[2].listeners = <<<<"click", "f1">>>>

(***************************************************************************)
(* The state store (state.js).  State objects live on a heap so that the   *)
(* model tells the internal state object from a copy of it.  An operation  *)
(* of the store takes and returns a record s of the store's variables,     *)
(* with s.val the value it returned, s.trace the steps of the running      *)
(* call and s.handed the objects it gave to application code.              *)
(***************************************************************************)
MaxSubs == 2
MaxReads == 2

StateKeys == {"a", "b"}
StateVals == {0, 1}
\* the plain mappings application code passes around
Mappings == UNION {[D -> StateVals] : D \in SUBSET StateKeys}

NumV(n) == [t |-> "num", n |-> n]
UndefV == [t |-> "undef", n |-> 0]

\* the spread with the operands' precedence exchanged
Merge_FirstWins(a, b) ==
  [k \in DOMAIN a \cup DOMAIN b |-> IF k \in DOMAIN a THEN a[k] ELSE b[k]]

\* { ...a, ...b }
Merge(a, b) ==
  [k \in DOMAIN a \cup DOMAIN b |-> IF k \in DOMAIN b THEN b[k] ELSE a[k]]

\* the subscriber callbacks of the application: "watch" looks at its arguments,
\* "derive" also reads the computed property through getState
Callbacks == {"watch", "derive"}

\* a subscriber that calls setState from inside the notification round:
\* state => { if (state.b !== 1) store.setState({ b: 1 }) }
Again == "again"
AgainValues == [b |-> 1]
AgainWanted(st) == \E k \in DOMAIN AgainValues : k \notin DOMAIN st \/ st[k] # AgainValues[k]

ComputedNames == {"total"}
Getters == {"sum", "size"}

\* the getter functions: state -> value
ApplyGetter(getter, st) ==
  IF getter = "sum"
    THEN (IF "a" \in DOMAIN st THEN st["a"] ELSE 0) + (IF "b" \in DOMAIN st THEN st["b"] ELSE 0)
    ELSE Cardinality(DOMAIN st)

\* the updates given to setState: a mapping, or a function of the current snapshot
MapUpdate(m) == [t |-> "map", m |-> m, f |-> ""]
FnUpdate(f) == [t |-> "fn", m |-> EmptyMap, f |-> f]
Updates == {MapUpdate(m) : m \in Mappings} \cup {FnUpdate("bump"), FnUpdate("copy")}

\* the arguments given to reset: none (Null), or a new initial state
ResetArgs == {Null, EmptyMap, [b |-> 1]}

\* update(snapshot) for the update functions
ApplyUpdate(f, snap) ==
  IF f = "bump"
    THEN [k \in {"a"} |-> IF "a" \in DOMAIN snap THEN (snap["a"] + 1) % Cardinality(StateVals) ELSE 0]
    ELSE [k \in {"b"} |-> IF "a" \in DOMAIN snap THEN snap["a"] ELSE 0]

\* a test every value passes
IsFunction_Any(update) == TRUE

\* Helpers.isFunction(update)
IsFunction(update) == update.t = "fn"

\* the construction-time initial state of createState
InitialState == [a |-> 0]

\* JSON.stringify(state) and JSON.parse(text): the text lists the entries key by key
KeyOrder == <<"a", "b">>
Stringify(st) ==
  LET keys == SelectSeq(KeyOrder, LAMBDA k : k \in DOMAIN st)
  IN  [i \in 1..Len(keys) |-> [key |-> keys[i], value |-> st[keys[i]]]]
Parse(text) ==
  [k \in {text[i].key : i \in 1..Len(text)} |->
     (CHOOSE e \in {text[i] : i \in 1..Len(text)} : e.key = k).value]

\* the backend's item under persistenceKey: getItem gives null while nothing is saved
NoItem == [saved |-> FALSE, text |-> <<>>]
Item(text) == [saved |-> TRUE, text |-> text]

\* a reference no live object has
NewRef(h) == CHOOSE r \in 1..(Cardinality(DOMAIN h) + 1) :
               r \notin DOMAIN h /\ \A q \in 1..(r - 1) : q \in DOMAIN h

\* a new object with the given content; its reference is s.val
Alloc(s, content) ==
  LET r == NewRef(s.heap)
  IN  [s EXCEPT !.heap = (r :> content) @@ s.heap, !.val = r]

Log(s, event) == [s EXCEPT !.trace = Append(@, event)]
Hand(s, src, ref) == [s EXCEPT !.handed = Append(@, [src |-> src, ref |-> ref])]

\* config.persistence: "none" (null), or a storage adapter; "adapter" works, the
\* getItem of "getThrows" throws, the setItem of "setThrows" throws
GetItemThrows(p) == p = "getThrows"
SetItemThrows(p) == p = "setThrows"

\* a saveState that never writes
SaveState_Skip(s) == s

\* saveState (state.js 69-85): the write, or the catch clause when setItem throws
SaveState(s) ==
  IF s.persistence = "none"
    THEN s
    ELSE IF SetItemThrows(s.persistence)
      THEN Log(s, [ev |-> "caught", from |-> "saveState"])
      ELSE Log([s EXCEPT !.storage = Item(Stringify(s.heap[s.state]))], [ev |-> "persist"])

\* a cache that is left as it is
ClearCache_Keep(s) == s

\* computedCache.clear()
ClearCache(s) ==
  Log([s EXCEPT !.computedCache = EmptyMap], [ev |-> "clear", dropped |-> DOMAIN s.computedCache])

\* getState() without a property (state.js 122-123): a shallow copy
GetStateAll(s) == Alloc(s, s.heap[s.state])

\* a read of a computed property, as the properties look at it
ReadRecord(s, prop, value, fresh) ==
  IF Len(s.reads) < MaxReads
    THEN [s EXCEPT !.reads = Append(@, [val |-> value, fresh |-> fresh,
                                         now |-> ApplyGetter(s.computedProperties[prop],
                                                             s.heap[s.state])])]
    ELSE s

\* getState(prop) that computes the property on every read
GetStateProp_Recompute(s, prop) ==
  IF prop \in DOMAIN s.computedProperties
    THEN LET value == ApplyGetter(s.computedProperties[prop], s.heap[s.state])
         IN  [ReadRecord(s, prop, value, TRUE) EXCEPT !.val = NumV(value)]
    ELSE [s EXCEPT !.val = UndefV]

\* getState(prop) (state.js 99-120); property paths with a dot are not among the inputs
GetStateProp(s, prop) ==
  IF prop \in DOMAIN s.computedProperties
    THEN IF prop \in DOMAIN s.computedCache
           THEN [ReadRecord(s, prop, s.computedCache[prop], FALSE)
                   EXCEPT !.val = NumV(s.computedCache[prop])]
           ELSE LET value == ApplyGetter(s.computedProperties[prop], s.heap[s.state])
                IN  [ReadRecord(s, prop, value, TRUE)
                       EXCEPT !.computedCache = (prop :> value) @@ s.computedCache,
                              !.val = NumV(value)]
    ELSE IF prop \in DOMAIN s.heap[s.state]
           THEN [s EXCEPT !.val = NumV(s.heap[s.state][prop])]
           ELSE [s EXCEPT !.val = UndefV]

\* the number of setState calls that have begun and not returned
Depth(t) ==
  Cardinality({i \in 1..Len(t) : t[i].ev = "setState"})
    - Cardinality({i \in 1..Len(t) : t[i].ev = "return"})

\* subscribers.indexOf(callback), 0 when it is not in the list
IndexOf(list, cb) ==
  IF \E i \in 1..Len(list) : list[i] = cb
    THEN CHOOSE i \in 1..Len(list) : list[i] = cb /\ \A j \in 1..(i - 1) : list[j] # cb
    ELSE 0

\* subscribers.splice(index, 1)
Splice(list, index) == SubSeq(list, 1, index - 1) \o SubSeq(list, index + 1, Len(list))

\* the unsubscribe closure of subscribe (state.js 171-176)
UnsubscribeOp(list, cb) ==
  IF IndexOf(list, cb) # 0 THEN Splice(list, IndexOf(list, cb)) ELSE list

\* subscribers that call an unsubscribe closure (state.js 170-176) from inside the
\* round: "leave" calls its own, "oust" calls the one of "watch"
Leaves(cb) == cb \in {"leave", "oust"}
LeftBy(cb) == IF cb = "oust" THEN "watch" ELSE cb

\* a subscriber that throws, and whether an exception is on its way out of the call
Thrower == "thrower"
Thrown(s) == s.trace # <<>> /\ s.trace[Len(s.trace)].ev \in {"throw", "raised"}

RECURSIVE SetStateOp(_, _)
\* the body of a subscriber callback
RunCallback(s, cb) ==
  IF cb = "derive" THEN GetStateProp(s, "total")
  ELSE IF cb = Again /\ AgainWanted(s.heap[s.state])
    THEN SetStateOp(s, [t |-> "map", m |-> AgainValues, f |-> ""])
  ELSE IF Leaves(cb)
    THEN [s EXCEPT !.subscribers = UnsubscribeOp(@, LeftBy(cb))]
  ELSE IF cb = Thrower
    THEN Log(s, [ev |-> "throw", sub |-> cb])
  ELSE s

\* a call that hands the subscriber the old state as the new one
CallSubscriber_OldAsNew(s, i, oldRef, newValues) ==
  Hand(Log(s, [ev |-> "notify", sub |-> s.subscribers[i], index |-> i,
               new |-> s.heap[oldRef], old |-> s.heap[oldRef], upd |-> newValues]),
       "subscriber", oldRef)

\* subscriber(state, oldState, newValues): the call and what it was given
CallSubscriber(s, i, oldRef, newValues) ==
  LET cb == s.subscribers[i]
      called == Log(s, [ev |-> "notify", sub |-> cb, index |-> i,
                        new |-> s.heap[s.state], old |-> s.heap[oldRef],
                        upd |-> newValues])
  IN  RunCallback(Hand(called, "subscriber", s.state), cb)

RECURSIVE Notify_Guarded(_, _, _, _)
\* a round that is not begun while another round is under way
Notify_Guarded(s, i, oldRef, newValues) ==
  IF Depth(s.trace) > 1 \/ i > Len(s.subscribers)
    THEN s
    ELSE Notify_Guarded(CallSubscriber(s, i, oldRef, newValues), i + 1, oldRef, newValues)

RECURSIVE Notify_CatchEach(_, _, _, _)
\* a round that goes on after a subscriber has thrown
Notify_CatchEach(s, i, oldRef, newValues) ==
  IF i > Len(s.subscribers)
    THEN s
    ELSE Notify_CatchEach(CallSubscriber(s, i, oldRef, newValues), i + 1, oldRef, newValues)

RECURSIVE Notify(_, _, _, _)
\* subscribers.forEach(subscriber => subscriber(state, oldState, newValues)); an
\* exception of a subscriber ends the loop
Notify(s, i, oldRef, newValues) ==
  IF i > Len(s.subscribers) \/ Thrown(s)
    THEN s
    ELSE Notify(CallSubscriber(s, i, oldRef, newValues), i + 1, oldRef, newValues)

\* setState(update) (state.js 131-156)
SetStateOp(s0, update) ==
  LET \* const oldState = { ...state }
      s1 == Alloc(Log(s0, [ev |-> "setState", pre |-> s0.heap[s0.state], update |-> update]),
                  s0.heap[s0.state])
      oldRef == s1.val
      \* update(this.getState()) : update
      s2 == IF IsFunction(update) THEN GetStateAll(s1) ELSE s1
      newValues == IF IsFunction(update) THEN ApplyUpdate(update.f, s2.heap[s2.val])
                                         ELSE update.m
      \* state = { ...state, ...newValues }
      s3 == Alloc(s2, Merge(s2.heap[s2.state], newValues))
      s4 == Log([s3 EXCEPT !.state = s3.val], [ev |-> "merge"])
      s5 == ClearCache([s4 EXCEPT !.reads = <<>>])
      s6 == SaveState(s5)
      s7 == Notify(s6, 1, oldRef, newValues)
      \* return this.getState()
      s8 == GetStateAll(s7)
  IN  IF Thrown(s7)
        THEN Log(s7, [ev |-> "raised"])
        ELSE Hand(Log(s8, [ev |-> "return", value |-> s8.heap[s8.val]]), "returned", s8.val)

\* initial values that are the construction-time ones whatever the argument
InitialValues_Construction(newInitial) == InitialState

\* newInitial || initialState; newInitial is Null when the argument is left out
InitialValues(newInitial) == IF newInitial = Null THEN InitialState ELSE newInitial

\* reset(newInitial) (state.js 199-210)
ResetOp(s0, newInitial) ==
  LET initialValues == InitialValues(newInitial)
      s1 == Alloc(Log(s0, [ev |-> "reset", pre |-> s0.heap[s0.state],
                           update |-> MapUpdate(initialValues), arg |-> newInitial]),
                  initialValues)
      s2 == Log([s1 EXCEPT !.state = s1.val], [ev |-> "merge"])
      s3 == ClearCache([s2 EXCEPT !.reads = <<>>])
      s4 == SaveState(s3)
      \* the old state handed to the subscribers is a new empty object
      s5 == Alloc(s4, EmptyMap)
      s6 == Notify(s5, 1, s5.val, initialValues)
      s7 == GetStateAll(s6)
  IN  IF Thrown(s6)
        THEN Log(s6, [ev |-> "raised"])
        ELSE Hand(Log(s7, [ev |-> "return", value |-> s7.heap[s7.val]]), "returned", s7.val)

(***************************************************************************)
(* The store's variables as a record, and back.  After a call the objects  *)
(* nobody refers to any more are dropped and the references renumbered:    *)
(* the internal state object first, then the object the application holds. *)
(***************************************************************************)
NoHeld == [src |-> "none", ref |-> 0]

Cur ==
  [heap |-> heap, state |-> state, subscribers |-> subscribers,
   computedCache |-> computedCache, computedProperties |-> computedProperties,
   persistence |-> persistence, storage |-> storage, reads |-> reads,
   trace |-> <<>>, handed |-> <<>>, val |-> 0]

\* the reference of object r after renumbering
Renumber(s, h, r) == IF r = s.state THEN 1 ELSE IF r = h.ref THEN 2 ELSE 0

\* the store's variables after a call that left the store as s, the application keeping h
Becomes(s, h) ==
  /\ heap' = [r \in (IF h.src = "none" \/ h.ref = s.state THEN {1} ELSE {1, 2}) |->
                IF r = 1 THEN s.heap[s.state] ELSE s.heap[h.ref]]
  /\ state' = 1
  /\ held' = IF h.src = "none" THEN NoHeld ELSE [src |-> h.src, ref |-> Renumber(s, h, h.ref)]
  /\ subscribers' = s.subscribers
  /\ computedCache' = s.computedCache
  /\ computedProperties' = s.computedProperties
  /\ persistence' = s.persistence
  /\ storage' = s.storage
  /\ reads' = s.reads
  /\ trace' = s.trace

\* what the application may keep of a call: nothing, or an object the call handed to it
Keepable(s) == {NoHeld} \cup {s.handed[i] : i \in 1..Len(s.handed)}

(***************************************************************************)
(* The calls of the application on the store.  The record of a setState or *)
(* reset call is looked at (Observed) before the application goes on.      *)
(***************************************************************************)
\* createState(InitialState, {persistence}) : nothing is saved yet, so nothing is loaded
StoreInit ==
  /\ heap = (1 :> InitialState)
  /\ state = 1
  /\ subscribers = <<>>
  /\ computedCache = EmptyMap
  /\ computedProperties = EmptyMap
  /\ persistence \in {"none", "adapter"}
  /\ storage = NoItem
  /\ held = NoHeld
  /\ trace = <<>>
  /\ reads = <<>>
  /\ leaked = FALSE

SetState(update) ==
  /\ trace = <<>>
  /\ LET s == SetStateOp(Cur, update)
     IN  \E h \in Keepable(s) : Becomes(s, h)
  /\ leaked' = FALSE
  /\ UNCHANGED <<domVars, routerVars, callVars>>

Reset(newInitial) ==
  /\ trace = <<>>
  /\ LET s == ResetOp(Cur, newInitial)
     IN  \E h \in Keepable(s) : Becomes(s, h)
  /\ leaked' = FALSE
  /\ UNCHANGED <<domVars, routerVars, callVars>>

Observed ==
  /\ trace # <<>>
  /\ trace' = <<>>
  /\ UNCHANGED <<heap, state, subscribers, computedCache, computedProperties, persistence,
                 storage, held, reads, leaked>>
  /\ UNCHANGED <<domVars, routerVars, callVars>>

\* getState(): the application keeps the snapshot
GetState ==
  /\ trace = <<>>
  /\ LET s == GetStateAll(Cur)
     IN  Becomes(s, [src |-> "returned", ref |-> s.val])
  /\ leaked' = FALSE
  /\ UNCHANGED <<domVars, routerVars, callVars>>

\* getState(name) of a computed property
GetComputed(name) ==
  /\ trace = <<>>
  /\ name \in DOMAIN computedProperties
  /\ Len(reads) < MaxReads
  /\ Becomes(GetStateProp(Cur, name), held)
  /\ leaked' = FALSE
  /\ UNCHANGED <<domVars, routerVars, callVars>>

Subscribe(cb) ==
  /\ trace = <<>>
  /\ Len(subscribers) < MaxSubs
  /\ subscribers' = Append(subscribers, cb)
  /\ leaked' = FALSE
  /\ UNCHANGED <<domVars, routerVars, callVars>>
  /\ UNCHANGED <<heap, state, computedCache, computedProperties, persistence, storage,
                 held, trace, reads>>

\* a call of the unsubscribe closure that subscribe(cb) returned
Unsubscribe(cb) ==
  /\ trace = <<>>
  /\ subscribers' = UnsubscribeOp(subscribers, cb)
  /\ leaked' = FALSE
  /\ UNCHANGED <<domVars, routerVars, callVars>>
  /\ UNCHANGED <<heap, state, computedCache, computedProperties, persistence, storage,
                 held, trace, reads>>

\* computed(name, getter) (state.js 185-192)
Computed(name, getter) ==
  /\ trace = <<>>
  /\ computedProperties' = (name :> getter) @@ computedProperties
  /\ leaked' = FALSE
  /\ UNCHANGED <<domVars, routerVars, callVars>>
  /\ UNCHANGED <<heap, state, subscribers, computedCache, persistence, storage,
                 held, trace, reads>>

\* application code sets a top-level key on the object it kept, and lets go of it
HolderWrites(key, value) ==
  /\ trace = <<>>
  /\ held # NoHeld
  /\ LET written == [heap EXCEPT ![held.ref] = (key :> value) @@ heap[held.ref]]
     IN  /\ heap' = [r \in {1} |-> written[state]]
         /\ leaked' = (written[state] # heap[state])
  /\ held' = NoHeld
  /\ UNCHANGED <<state, subscribers, computedCache, computedProperties, persistence, storage,
                 trace, reads>>
  /\ UNCHANGED <<domVars, routerVars, callVars>>

StoreNext ==
  \/ \E update \in Updates : SetState(update)
  \/ \E newInitial \in ResetArgs : Reset(newInitial)
  \/ Observed
  \/ GetState
  \/ \E name \in ComputedNames : GetComputed(name)
  \/ \E cb \in Callbacks : Subscribe(cb)
  \/ \E cb \in Callbacks : Unsubscribe(cb)
  \/ \E name \in ComputedNames, getter \in Getters : Computed(name, getter)
  \/ \E key \in StateKeys, value \in StateVals : HolderWrites(key, value)

(***************************************************************************)
(* The router (router.js).  A path is the sequence of its segments, the    *)
(* texts between the separators, and whether it starts with a separator:   *)
(* "/users/42" is Path(<<"users", "42">>).  A route pattern is written the *)
(* same way, with ":name" and "**" segments.                               *)
(***************************************************************************)
MaxOverlap == 2

Path(segs) == [lead |-> TRUE, segs |-> segs]
Bare(segs) == [lead |-> FALSE, segs |-> segs]

\* the patterns the application registers
Patterns ==
  {<<"users", ":id">>, <<"users", ":id", ":tab">>, <<"users", "**">>}

\* the paths the application and the user navigate to
Paths ==
  {Path(<<"users", "42">>), Path(<<"users", "42", "settings">>),
   Bare(<<"users", "a%20b">>), Path(<<"lost">>)}

DefaultRoute == Path(<<"">>)

\* a segment that /:\w+/ matches as a whole, and the name after the colon
IsParam(seg) == seg \in {":id", ":tab"}
ParamName(seg) == IF seg = ":id" THEN "id" ELSE "tab"

\* decodeURIComponent on a segment
Decode(seg) == IF seg = "a%20b" THEN "a b" ELSE seg

RECURSIVE JoinDecoded(_)
\* the decoded text of consecutive segments with their separators
JoinDecoded(segs) ==
  IF Len(segs) = 1
    THEN Decode(segs[1])
    ELSE Decode(segs[1]) \o "/" \o JoinDecoded(Tail(segs))

\* path.match(/:\w+/g).map(param => param.substring(1)) (router.js 45-46)
ParamNames(pattern) ==
  LET params == SelectSeq(pattern, IsParam)
  IN  [i \in 1..Len(params) |-> ParamName(params[i])]

NoCaptures == [ok |-> FALSE, caps |-> <<>>]

RECURSIVE MatchSegs(_, _)
RECURSIVE MatchWild(_, _, _)

\* the wildcard group (.*) taking the first k segments, the longest first
MatchWild(pattern, segs, k) ==
  IF k = 0
    THEN NoCaptures
    ELSE LET rest == MatchSegs(Tail(pattern), SubSeq(segs, k + 1, Len(segs)))
         IN  IF rest.ok
               THEN [ok |-> TRUE,
                     caps |-> <<JoinDecoded(SubSeq(segs, 1, k))>> \o rest.caps]
               ELSE MatchWild(pattern, segs, k - 1)

\* the compiled pattern ^...$ against a path (router.js 37-42, 88): a literal segment
\* matches itself, ([^/]+) one non-empty segment, (.*) any text
MatchSegs(pattern, segs) ==
  IF pattern = <<>>
    THEN [ok |-> segs = <<>>, caps |-> <<>>]
  ELSE IF segs = <<>>
    THEN NoCaptures
  ELSE IF Head(pattern) = "**"
    THEN MatchWild(pattern, segs, Len(segs))
  ELSE IF IsParam(Head(pattern))
    THEN LET rest == MatchSegs(Tail(pattern), Tail(segs))
         IN  IF Head(segs) # "" /\ rest.ok
               THEN [ok |-> TRUE, caps |-> <<Decode(Head(segs))>> \o rest.caps]
               ELSE NoCaptures
  ELSE IF Head(pattern) = Head(segs)
    THEN MatchSegs(Tail(pattern), Tail(segs))
  ELSE NoCaptures

\* path.match(route.regexp): every pattern starts with a separator
RegexpMatch(route, path) ==
  IF path.lead THEN MatchSegs(route.path, path.segs) ELSE NoCaptures

\* the key a capture is stored under: route.paramNames[index]
ParamKey(route, index) ==
  IF index <= Len(route.paramNames) THEN route.paramNames[index] ELSE "undefined"

\* the params object of a match (router.js 92-98); a later capture overwrites an
\* earlier one stored under the same key
ParamsOf(route, caps) ==
  IF Len(route.paramNames) = 0
    THEN EmptyMap
    ELSE [key \in {ParamKey(route, i) : i \in 1..Len(caps)} |->
            caps[CHOOSE i \in 1..Len(caps) :
                   /\ ParamKey(route, i) = key
                   /\ \A j \in (i + 1)..Len(caps) : ParamKey(route, j) # key]]

NoMatch == [found |-> FALSE, index |-> 0, params |-> EmptyMap]

\* match that gives the last matching route
Match_Last(table, path) ==
  LET hits == {i \in 1..Len(table) : RegexpMatch(table[i], path).ok}
  IN  IF hits = {}
        THEN NoMatch
        ELSE LET i == CHOOSE h \in hits : \A g \in hits : g <= h
             IN  [found |-> TRUE, index |-> i,
                  params |-> ParamsOf(table[i], RegexpMatch(table[i], path).caps)]

\* match(path) (router.js 86-108): the routes are tried in registration order
Match(table, path) ==
  LET hits == {i \in 1..Len(table) : RegexpMatch(table[i], path).ok}
  IN  IF hits = {}
        THEN NoMatch
        ELSE LET i == CHOOSE h \in hits : \A g \in hits : h <= g
             IN  [found |-> TRUE, index |-> i,
                  params |-> ParamsOf(table[i], RegexpMatch(table[i], path).caps)]

\* the entry add pushes (router.js 48-54); the handler is named after the pattern
RouteEntry(pattern) ==
  [path |-> pattern, handler |-> pattern, paramNames |-> ParamNames(pattern),
   meta |-> EmptyMap]

NoRoute == [path |-> Bare(<<>>), params |-> EmptyMap, meta |-> EmptyMap, none |-> TRUE]
RouteValue(path, params, meta) ==
  [path |-> path, params |-> params, meta |-> meta, none |-> FALSE]

(***************************************************************************)
(* handleRouteChange (router.js 114-154) in its two parts: up to the await *)
(* of the beforeEach hook, and from the hook's result on.  r is the record *)
(* of the router's variables.                                              *)
(***************************************************************************)
Router ==
  [routes |-> routes, currentRoute |-> currentRoute, currentHash |-> currentHash,
   location |-> location, listeners |-> listeners, beforeEach |-> beforeEach,
   notFoundHandler |-> notFoundHandler, pending |-> pending, count |-> count, rlog |-> rlog]

RLog(r, event) == [r EXCEPT !.rlog = Append(@, event)]

RECURSIVE NotifyListeners(_, _, _)
\* notifyListeners(route) (router.js 160-162)
NotifyListeners(r, t, i) ==
  IF i > Len(r.listeners)
    THEN r
    ELSE NotifyListeners(
           RLog(r, [t |-> t, ev |-> "listener", who |-> r.listeners[i], route |-> r.currentRoute]),
           t, i + 1)

\* a continuation that goes on whatever the hook resolved to
Proceeds_Always(next) == TRUE

\* next === false cancels the navigation (router.js 134-137)
Proceeds(next) == next # "false"

\* a call of this.notFoundHandler whether or not one is configured
NotFound_Unguarded(r, tr) == RLog(r, [t |-> tr.t, ev |-> "notFound", path |-> tr.path])

\* else if (this.notFoundHandler) this.notFoundHandler(currentPath) (router.js 143-145)
NotFound(r, tr) ==
  IF r.notFoundHandler
    THEN RLog(r, [t |-> tr.t, ev |-> "notFound", path |-> tr.path])
    ELSE r

\* router.js 140-153: the handler or the not-found handler, afterEach, the listeners
Finish(r, tr) ==
  LET r1 == IF tr.matched.found
              THEN RLog(r, [t |-> tr.t, ev |-> "handler", path |-> tr.path,
                            handler |-> r.routes[tr.matched.index].handler,
                            params |-> tr.matched.params, route |-> r.currentRoute])
              ELSE NotFound(r, tr)
      r2 == RLog(r1, [t |-> tr.t, ev |-> "afterEach", route |-> r1.currentRoute,
                      previous |-> tr.previous])
  IN  NotifyListeners(r2, tr.t, 1)

\* a call that never suspends
Awaits_Never(r) == FALSE

\* if (this.beforeEach) { const next = await this.beforeEach(...) } (router.js 132-133):
\* with a hook the call suspends at the await, whatever the hook returns
Awaits(r) == r.beforeEach

\* router.js 115-138 up to the await
Begin(r, path) ==
  LET \* path || window.location.hash.slice(1) || this.defaultRoute
      currentPath == IF path # Null THEN path
                     ELSE IF r.location.segs # <<>> THEN r.location ELSE DefaultRoute
      t == IF r.pending = <<>> THEN 1 ELSE r.count + 1
      matched == Match(r.routes, currentPath)
      candidate == IF matched.found
                     THEN RouteValue(currentPath, matched.params,
                                     r.routes[matched.index].meta)
                     ELSE NoRoute
      tr == [t |-> t, path |-> currentPath, matched |-> matched,
             previous |-> r.currentRoute]
      r1 == [r EXCEPT !.currentHash = currentPath, !.currentRoute = candidate,
                      !.count = t,
                      !.rlog = IF r.pending = <<>> THEN <<>> ELSE @]
      r2 == RLog(r1, [t |-> t, ev |-> "begin", path |-> currentPath,
                      candidate |-> candidate, previous |-> r.currentRoute])
  IN  IF Awaits(r)
        THEN [RLog(r2, [t |-> t, ev |-> "beforeEach", route |-> candidate,
                        previous |-> r.currentRoute])
                EXCEPT !.pending = Append(@, tr)]
        ELSE Finish(r2, tr)

\* the rest of handleRouteChange once the hook of pending[i] has resolved to next
Resume(r, i, next) ==
  LET tr == r.pending[i]
      r1 == [r EXCEPT !.pending = SubSeq(@, 1, i - 1) \o SubSeq(@, i + 1, Len(@))]
      r2 == RLog(r1, [t |-> tr.t, ev |-> "resolved", next |-> next])
  IN  IF Proceeds(next) THEN Finish(r2, tr) ELSE r2

RouterBecomes(r) ==
  /\ routes' = r.routes
  /\ currentRoute' = r.currentRoute
  /\ currentHash' = r.currentHash
  /\ location' = r.location
  /\ listeners' = r.listeners
  /\ beforeEach' = r.beforeEach
  /\ notFoundHandler' = r.notFoundHandler
  /\ pending' = r.pending
  /\ count' = r.count
  /\ rlog' = r.rlog

\* a transition may begin: the model follows MaxOverlap transitions at a time
MayBegin == pending = <<>> \/ count < MaxOverlap

\* createRouter(options) (router.js 15-26), the address bar empty
RouterInit ==
  /\ routes = <<>>
  /\ currentRoute = NoRoute
  /\ currentHash = DefaultRoute
  /\ location = Bare(<<>>)
  /\ listeners = <<>>
  /\ beforeEach \in BOOLEAN
  /\ notFoundHandler \in BOOLEAN
  /\ started = FALSE
  /\ hashEvents = 0
  /\ pending = <<>>
  /\ count = 0
  /\ rlog = <<>>

\* add(path, handler) (router.js 35-57), while the application sets the router up,
\* each pattern once
Add(pattern) ==
  /\ \A i \in 1..Len(routes) : routes[i].path # pattern
  /\ count = 0
  /\ routes' = Append(routes, RouteEntry(pattern))
  /\ UNCHANGED <<currentRoute, currentHash, location, listeners, beforeEach,
                 notFoundHandler, started, hashEvents, pending, count, rlog>>
  /\ UNCHANGED <<domVars, storeVars, callVars>>

\* onRouteChange(callback) (router.js 169-183), during set-up
OnRouteChange(cb) ==
  /\ \A i \in 1..Len(listeners) : listeners[i] # cb
  /\ count = 0
  /\ listeners' = Append(listeners, cb)
  /\ UNCHANGED <<routes, currentRoute, currentHash, location, beforeEach,
                 notFoundHandler, started, hashEvents, pending, count, rlog>>
  /\ UNCHANGED <<domVars, storeVars, callVars>>

\* the browser queues a hashchange event when the fragment changes
Queued(newLocation) ==
  IF started /\ newLocation # location THEN hashEvents + 1 ELSE hashEvents

\* navigate(path, {replace, silent}) (router.js 66-79); replace and assignment write
\* the same fragment
Navigate(path, silent) ==
  /\ silent \/ MayBegin
  /\ Queued(Path(path.segs)) <= MaxOverlap
  /\ LET fullPath == Path(path.segs)
         r == [Router EXCEPT !.location = fullPath]
     IN  RouterBecomes(IF silent THEN r ELSE Begin(r, fullPath))
  /\ hashEvents' = Queued(Path(path.segs))
  /\ UNCHANGED started
  /\ UNCHANGED <<domVars, storeVars, callVars>>

\* init() (router.js 196-206)
Start ==
  /\ ~started
  /\ MayBegin
  /\ started' = TRUE
  /\ RouterBecomes(Begin(Router, Null))
  /\ UNCHANGED hashEvents
  /\ UNCHANGED <<domVars, storeVars, callVars>>

\* the hashchange listener of init() runs (router.js 198-200)
HashChange ==
  /\ hashEvents > 0
  /\ MayBegin
  /\ hashEvents' = hashEvents - 1
  /\ RouterBecomes(Begin(Router, Null))
  /\ UNCHANGED started
  /\ UNCHANGED <<domVars, storeVars, callVars>>

\* the beforeEach hook of a suspended transition resolves
HookResolves(i, next) ==
  /\ i \in 1..Len(pending)
  /\ RouterBecomes(Resume(Router, i, next))
  /\ UNCHANGED <<started, hashEvents>>
  /\ UNCHANGED <<domVars, storeVars, callVars>>

RouterNext ==
  \/ \E pattern \in Patterns : Add(pattern)
  \/ \E cb \in {"onRoute"} : OnRouteChange(cb)
  \/ \E path \in Paths, silent \in BOOLEAN : Navigate(path, silent)
  \/ Start
  \/ HashChange
  \/ \E i \in 1..MaxOverlap, next \in {"false", "undefined"} : HookResolves(i, next)

(***************************************************************************)
(* The specifications, one for each subsystem; the others stand still.     *)
(***************************************************************************)
DomIdle ==
  /\ container = <<>>
  /\ currentVNode = Null
  /\ domOp = "idle"
  /\ pristine = FALSE

StoreIdle == StoreInit /\ persistence = "none"

RouterIdle == RouterInit /\ ~beforeEach /\ ~notFoundHandler

PatchIdle ==
  /\ patchOld = Null
  /\ patchNew = Null
  /\ patchDom = NoNode
  /\ patchOut = NoNode

CreateIdle ==
  /\ childArgs = <<>>
  /\ created = Null

NotCalled == [kind |-> "notCalled"]

RenderIdle ==
  /\ renderNode = Null
  /\ renderInto = <<>>
  /\ renderOut = <<>>
  /\ renderRet = NotCalled

EventsIdle ==
  /\ evListeners = EmptyMap
  /\ emitted = <<>>

CallsIdle == PatchIdle /\ CreateIdle /\ RenderIdle /\ EventsIdle

InitDom == DomInit /\ StoreIdle /\ RouterIdle /\ CallsIdle

\* the store is created with a storage adapter as its persistence backend
InitStore == StoreInit /\ persistence = "adapter" /\ DomIdle /\ RouterIdle /\ CallsIdle

SpecDom == InitDom /\ [][DomNext]_vars

SpecStore == InitStore /\ [][StoreNext]_vars

InitRouter == RouterInit /\ notFoundHandler /\ DomIdle /\ StoreIdle /\ CallsIdle

InitPatch == PatchInit /\ CreateIdle /\ RenderIdle /\ EventsIdle /\ DomIdle /\ StoreIdle /\ RouterIdle

SpecPatch == InitPatch /\ [][PatchNext]_vars

SpecRouter == InitRouter /\ [][RouterNext]_vars

(***************************************************************************)
(* Properties of the state store.                                          *)
(***************************************************************************)
\* a setState call has just returned
AfterSetState == trace # <<>> /\ trace[1].ev = "setState"

\* the mapping a setState call was to merge: the update, or the update function's result
Applied(call) ==
  IF call.update.t = "fn" THEN ApplyUpdate(call.update.f, call.pre) ELSE call.update.m

\* the state before the call with the keys of the applied update overwritten
Expected(call) ==
  [k \in DOMAIN call.pre \cup DOMAIN Applied(call) |->
     IF k \in DOMAIN Applied(call) THEN Applied(call)[k] ELSE call.pre[k]]

Notifications == SelectSeq(trace, LAMBDA e : e.ev = "notify")

\* the place of the only event of that kind in the trace, 0 when there is none
PlaceOf(ev) ==
  IF \E i \in 1..Len(trace) : trace[i].ev = ev
    THEN CHOOSE i \in 1..Len(trace) : trace[i].ev = ev
    ELSE 0

\* C2: getState() immediately after setState(x) returns the prior state shallow-merged
\* with x (keys of x overwrite, every other key is unchanged), and setState returns
\* that same mapping.
C2_SetStateRoundTrip ==
  AfterSetState =>
    LET snapshot == GetStateAll(Cur)
    IN  /\ snapshot.heap[snapshot.val] = Expected(trace[1])
        /\ trace[Len(trace)].ev = "return"
        /\ trace[Len(trace)].value = Expected(trace[1])

\* a function update was merged into a state that keeps a key the update does not name
C2_Witness ==
  /\ AfterSetState
  /\ trace[1].update.t = "fn"
  /\ DOMAIN trace[1].pre = {"a", "b"}
  /\ DOMAIN Applied(trace[1]) = {"a"}
  /\ Applied(trace[1])["a"] # trace[1].pre["a"]

C8_GetterOncePerMutation ==
  /\ Cardinality({i \in 1..Len(reads) : reads[i].fresh}) <= 1
  /\ \A i, j \in 1..Len(reads) : reads[i].val = reads[j].val

\* the property was read twice since the last mutation
C8_Witness ==
  /\ Len(reads) >= 2
  /\ reads[1].fresh
  /\ ~reads[2].fresh

\* C9: after every setState or reset, whatever keys it changes, the first read of a
\* computed property returns the getter applied to the state current at that read, never
\* a value cached before the call; also when a subscriber reads during the notification.
C9_FirstReadIsFresh ==
  Len(reads) >= 1 => reads[1].fresh /\ reads[1].val = reads[1].now

\* a setState that changed no key dropped a cached value, and a subscriber read the
\* property during the notification
C9_Witness ==
  /\ AfterSetState
  /\ Applied(trace[1]) = EmptyMap
  /\ trace[PlaceOf("clear")].dropped = {"total"}
  /\ Len(Notifications) >= 1
  /\ Len(reads) >= 1

\* C10: no value handed to a caller is the store's internal state object: setting a
\* top-level key on a mapping returned by getState, setState or reset, or passed to a
\* subscriber as the new state, never changes what a later getState() returns.
C10_HandedOutValuesAreCopies == ~leaked

(***************************************************************************)
(* The router's properties, under SpecRouter.                              *)
(***************************************************************************)
\* the transitions of the log whose beforeEach hook resolved to false
Vetoed == {rlog[i].t : i \in {j \in 1..Len(rlog) : rlog[j].ev = "resolved" /\ rlog[j].next = "false"}}

\* the place in the log where transition t began
BeginOf(t) == CHOOSE i \in 1..Len(rlog) : rlog[i].ev = "begin" /\ rlog[i].t = t

\* C4: when the beforeEach hook resolves to false, the router calls no route handler,
\* no not-found handler and no afterEach hook for that transition, and calls no
\* route-change listener with the candidate route.
C4_VetoSilencesTransition ==
  \A i \in 1..Len(rlog) :
    rlog[i].ev \in {"handler", "notFound", "afterEach", "listener"} => rlog[i].t \notin Vetoed

\* a transition to a registered route was vetoed while a listener was subscribed, and
\* the handling has returned
C4_Witness ==
  /\ listeners # <<>>
  /\ pending = <<>>
  /\ \E t \in Vetoed : ~rlog[BeginOf(t)].candidate.none

\* C5: when the beforeEach hook resolves to false the transition is rolled back: once
\* the veto is the last thing that happened, getCurrentRoute() returns the route that
\* was current before the vetoed transition began.
C5_VetoRestoresPreviousRoute ==
  \A t \in Vetoed :
    (rlog[Len(rlog)].ev = "resolved" /\ rlog[Len(rlog)].t = t
       /\ \A i \in (BeginOf(t) + 1)..Len(rlog) : rlog[i].ev # "begin")
    => currentRoute = rlog[BeginOf(t)].previous

\* the pattern fits the path: segment by segment, a parameter taking one non-empty
\* segment and a trailing wildcard the rest
Fits(pattern, path) ==
  LET n == Len(pattern)
      fixed == IF pattern[n] = "**" THEN n - 1 ELSE n
  IN  /\ path.lead
      /\ IF fixed = n THEN Len(path.segs) = n ELSE Len(path.segs) >= n
      /\ \A k \in 1..fixed :
           IF IsParam(pattern[k]) THEN path.segs[k] # "" ELSE pattern[k] = path.segs[k]

\* the routes of the table that fit the path
Fitting(path) == {i \in 1..Len(routes) : Fits(routes[i].path, path)}

\* what a transition to the path selects: the earliest registered route that fits, with
\* one decoded parameter for each named segment
Selects(path, matched) ==
  IF Fitting(path) = {}
    THEN ~matched.found
    ELSE LET first == CHOOSE i \in Fitting(path) : \A j \in Fitting(path) : i <= j
             pattern == routes[first].path
             named == {k \in 1..Len(pattern) : IsParam(pattern[k])}
         IN  /\ matched.found
             /\ matched.index = first
             /\ pattern[Len(pattern)] # "**" =>
                  /\ DOMAIN matched.params = {ParamName(pattern[k]) : k \in named}
                  /\ \A k \in named :
                       matched.params[ParamName(pattern[k])] = Decode(path.segs[k])

\* C6: routes are matched in registration order and the first route whose pattern
\* matches the whole path is selected, without ranking by specificity: with /users/:id
\* registered before /users/:id/:tab, /users/42 selects the first with params {id: '42'};
\* with only /users/:id/:tab registered, /users/42/settings gives {id: '42', tab: 'settings'}.
C6_FirstRegisteredMatchWins ==
  /\ \A path \in Paths : Selects(Path(path.segs), Match(routes, Path(path.segs)))
  /\ \A i \in 1..Len(rlog) :
       rlog[i].ev = "handler" =>
         /\ Fitting(rlog[i].path) # {}
         /\ \A j \in Fitting(rlog[i].path) :
              rlog[i].handler = routes[j].handler \/ \E k \in Fitting(rlog[i].path) : k < j
  /\ (Len(routes) >= 2 /\ routes[1].path = <<"users", ":id">>
        /\ routes[2].path = <<"users", ":id", ":tab">>)
     => LET m == Match(routes, Path(<<"users", "42">>))
        IN  m.found /\ m.index = 1 /\ DOMAIN m.params = {"id"} /\ m.params["id"] = "42"
  /\ (Len(routes) = 1 /\ routes[1].path = <<"users", ":id", ":tab">>)
     => LET m == Match(routes, Path(<<"users", "42", "settings">>))
        IN  /\ m.found
            /\ DOMAIN m.params = {"id", "tab"}
            /\ m.params["id"] = "42"
            /\ m.params["tab"] = "settings"

\* two registered routes fit /users/42, the wildcard one registered first, and the
\* handler of the first has run
C6_Witness ==
  /\ Len(routes) >= 2
  /\ routes[1].path = <<"users", "**">>
  /\ Fitting(Path(<<"users", "42">>)) = {1, 2}
  /\ \E i \in 1..Len(rlog) :
       /\ rlog[i].ev = "handler"
       /\ rlog[i].path = Path(<<"users", "42">>)
       /\ rlog[i].handler = <<"users", "**">>

(***************************************************************************)
(* The unsubscribe closure (state.js 171-176, router.js 177-182), called   *)
(* again.  The closure keeps nothing but the callback: every call looks    *)
(* the callback up in the list as it is then.                              *)
(***************************************************************************)
\* the subscriber list after the closure of cb was called n times
AfterCalls(list, cb, n) ==
  IF n = 0 THEN list
  ELSE IF n = 1 THEN UnsubscribeOp(list, cb)
  ELSE UnsubscribeOp(UnsubscribeOp(list, cb), cb)

\* C11: calling the unsubscribe closure returned by subscribe a second time is a no-op:
\* for every subscriber list, also one in which the same callback was subscribed more
\* than once, the list is the same after two calls as after one.
C11_UnsubscribeTwiceIsOnce ==
  \A cb \in Callbacks : AfterCalls(subscribers, cb, 2) = AfterCalls(subscribers, cb, 1)

\* C12: navigate(path, {silent: true}) writes the location but triggers no route-change
\* handling for it: the call queues no event for the router's location-change callback,
\* calls no hook, handler or listener, starts no transition and leaves the current route
\* as it was - also on a router on which init() has registered the callback.
C12_SilentNavigateTriggersNothing ==
  [][(\E path \in Paths : Navigate(path, TRUE))
       => /\ hashEvents' = hashEvents
          /\ currentRoute' = currentRoute
          /\ rlog' = rlog
          /\ pending' = pending]_vars

\* the transitions of the log that have run to their end without a veto
Completed == {rlog[i].t : i \in {j \in 1..Len(rlog) : rlog[j].ev = "afterEach"}}

\* what the log holds of transition t, in order
EventsOf(t) == SelectSeq(rlog, LAMBDA e : e.t = t)

\* the calls a transition makes once it proceeds, given how it began: the handler of the
\* matched route or the not-found handler, afterEach, then the listeners in
\* subscription order, each with the candidate as the current route
CallsAfterHook(b) ==
  <<IF b.candidate.none
      THEN [t |-> b.t, ev |-> "notFound", path |-> b.path]
      ELSE [t |-> b.t, ev |-> "handler", path |-> b.path,
            handler |-> routes[Match(routes, b.path).index].handler,
            params |-> b.candidate.params, route |-> b.candidate],
    [t |-> b.t, ev |-> "afterEach", route |-> b.candidate, previous |-> b.previous]>>
  \o [i \in 1..Len(listeners) |->
        [t |-> b.t, ev |-> "listener", who |-> listeners[i], route |-> b.candidate]]

\* C13: in every transition that is not vetoed the events occur in this order:
\* beforeEach(candidate, previous) resolves; the current route is the candidate; the
\* matched route's handler is called once with (params, currentRoute) or, on no match, the
\* not-found handler once with the path; afterEach is called once with (currentRoute,
\* previousRoute); then every listener is called once, in subscription order, with the
\* new current route.
C13_TransitionProtocol ==
  \A t \in Completed :
    LET evs == EventsOf(t)
        b == evs[1]
        hook == IF beforeEach
                  THEN <<[t |-> t, ev |-> "beforeEach", route |-> b.candidate,
                          previous |-> b.previous],
                         [t |-> t, ev |-> "resolved", next |-> "undefined"]>>
                  ELSE <<>>
    IN  /\ b.ev = "begin"
        /\ evs = <<b>> \o hook \o CallsAfterHook(b)

(***************************************************************************)
(* Properties of one call of patch, under SpecPatch.                       *)
(***************************************************************************)
\* patch has been called and has returned
Patched == patchNew # Null /\ patchOut # PatchFailed

\* patch replaces the live node: the old node is absent or the tags differ
Mismatch(newV, oldV) == oldV = Null \/ TagOf(oldV) # TagOf(newV)

\* the smaller of two lengths
Min(a, b) == IF a <= b THEN a ELSE b

\* the identities of the followed nodes of a child list
IdsOf(nodes) == {nodes[i].id : i \in {j \in 1..Len(nodes) : Followed(nodes[j])}}

RECURSIVE ReplacedWhereMismatched(_, _, _, _)
\* out is what patch(newV, oldV, dom) left at dom's place: a node created by the call
\* where the tags differ, and dom itself otherwise, down the tree
ReplacedWhereMismatched(newV, oldV, dom, out) ==
  IF Mismatch(newV, oldV)
    THEN ~Followed(out)
  ELSE IF IsText(newV)
    THEN Followed(out) /\ out.id = dom.id
  ELSE /\ Followed(out)
       /\ out.id = dom.id
       /\ \A i \in 1..Min(Len(newV.children), Len(oldV.children)) :
            /\ ReplacedWhereMismatched(newV.children[i], oldV.children[i],
                                       dom.children[i], out.children[i])
            /\ Mismatch(newV.children[i], oldV.children[i])
                 => dom.children[i].id \notin IdsOf(out.children)

\* C14: when the old and new nodes at the same position have different tags (an Element
\* against a Text node, or an absent old node, included), patch leaves at that position a
\* newly created node, distinct from the previous live node, which is no longer a child of
\* the parent; the siblings of that position keep their identity and order.
C14_MismatchReplacesNode ==
  Patched => ReplacedWhereMismatched(patchNew, patchOld, patchDom, patchOut)

\* a child was replaced by an element where a text node was, next to a sibling that
\* stayed in place
C14_Witness ==
  /\ Patched
  /\ patchOld # Null
  /\ Len(patchOld.children) = 2
  /\ Len(patchNew.children) = 2
  /\ IsText(patchOld.children[1])
  /\ ~IsText(patchNew.children[1])
  /\ ~Mismatch(patchNew.children[2], patchOld.children[2])
  /\ ~Followed(patchOut.children[1])
  /\ Followed(patchOut.children[2])

RECURSIVE OneTextChanged(_, _)
\* the two trees differ in the value of exactly one text node, and in nothing else
OneTextChanged(newV, oldV) ==
  IF IsText(newV) /\ IsText(oldV)
    THEN newV.value # oldV.value
  ELSE IF IsText(newV) \/ IsText(oldV)
    THEN FALSE
  ELSE /\ newV.tag = oldV.tag
       /\ newV.attrs = oldV.attrs
       /\ Len(newV.children) = Len(oldV.children)
       /\ \E i \in 1..Len(newV.children) :
            /\ OneTextChanged(newV.children[i], oldV.children[i])
            /\ \A j \in 1..Len(newV.children) :
                 j # i => newV.children[j] = oldV.children[j]

RECURSIVE CallsIn(_)
\* the calls made on the followed nodes of a subtree, node by node
CallsIn(node) ==
  LET own == IF Followed(node) THEN node.calls ELSE <<>>
      RECURSIVE Below(_)
      Below(i) == IF i > Len(node.children)
                    THEN <<>>
                    ELSE CallsIn(node.children[i]) \o Below(i + 1)
  IN  IF node.kind = "text" THEN own ELSE own \o Below(1)

RECURSIVE Plain(_)
\* the subtree as the platform holds it, without what following added
Plain(node) ==
  IF node.kind = "text"
    THEN [kind |-> "text", text |-> node.text]
    ELSE [kind |-> "elem", tag |-> node.tag, attrs |-> node.attrs, style |-> node.style,
          listeners |-> node.listeners,
          children |-> [i \in 1..Len(node.children) |-> Plain(node.children[i])]]

RECURSIVE SameNodes(_, _)
\* out is made of the very nodes of dom, each at its place with its attributes, style
\* and listeners; only text values may differ
SameNodes(out, dom) ==
  /\ Followed(out)
  /\ out.id = dom.id
  /\ out.kind = dom.kind
  /\ out.kind = "elem" =>
       /\ out.tag = dom.tag
       /\ out.attrs = dom.attrs
       /\ out.style = dom.style
       /\ out.listeners = dom.listeners
       /\ Len(out.children) = Len(dom.children)
       /\ \A i \in 1..Len(out.children) : SameNodes(out.children[i], dom.children[i])

\* patch was called with a new tree that differs from the old one in one text value
TextOnlyPatch == Patched /\ patchOld # Null /\ OneTextChanged(patchNew, patchOld)

\* the writes of a text value among the calls
TextWrites(calls) == SelectSeq(calls, LAMBDA c : c[1] = "nodeValue")

ChildrenUpdated == Patched /\ ~Mismatch(patchNew, patchOld) /\ ~IsText(patchNew)

\* C16: updateChildren is index-positional: for old children of length m and new children
\* of length n, every i < min(m, n) is patched against the live child at index i, the
\* live children at indices n..m-1 are removed, and the new children at indices m..n-1
\* are rendered and appended in order; afterwards the parent has exactly n live children,
\* the i-th corresponding to new child i.
C16_ChildrenByPosition ==
  ChildrenUpdated =>
    LET m == Len(patchOld.children)
        n == Len(patchNew.children)
        before == patchDom.children
        after == patchOut.children
    IN  /\ Len(after) = n
        /\ \A i \in 1..Min(m, n) :
             /\ after[i] = Patch(patchNew.children[i], patchOld.children[i], before[i])
             /\ ~Mismatch(patchNew.children[i], patchOld.children[i])
                  => Followed(after[i]) /\ after[i].id = before[i].id
        /\ \A i \in (n + 1)..m : before[i].id \notin IdsOf(after)
        /\ \A i \in (m + 1)..n :
             ~Followed(after[i]) /\ after[i] = Render(patchNew.children[i])
        /\ \A i \in 1..n : Plain(after[i]) = Render(patchNew.children[i])

\* two old children, one new child: the first live child was patched in place, its text
\* written, and the second removed
C16_Witness ==
  /\ ChildrenUpdated
  /\ Len(patchOld.children) = 2
  /\ Len(patchNew.children) = 1
  /\ Len(patchOut.children) = 1
  /\ Followed(patchOut.children[1])
  /\ patchOut.children[1].id = <<1>>
  /\ patchOut.children[1].calls # <<>>

\* nothing of the old attribute key is left on the element: its listener for a handler
\* key, the inline style for style, the class attribute for the className alias, the
\* attribute of that name otherwise
Gone(el, key, value) ==
  IF StartsWithOn(key) THEN ~HasListener(el, EventName(key), value)
  ELSE IF key = "style" THEN el.style = EmptyMap
  ELSE IF key = "className" THEN "class" \notin DOMAIN el.attrs
  ELSE key \notin DOMAIN el.attrs

\* C17: after updateAttributes on an element rendered from oldAttrs, nothing that came
\* from a key of oldAttrs that is absent from newAttrs remains on the element, for every
\* kind of key: plain string attribute, boolean attribute, style mapping, the class alias
\* className, and handler keys.
C17_DroppedKeysLeaveNothing ==
  ChildrenUpdated =>
    \A key \in DOMAIN patchOld.attrs \ DOMAIN patchNew.attrs :
      Gone(patchOut, key, patchOld.attrs[key])


(***************************************************************************)
(* createElement (dom.js).  A child argument is a string, a number, null,  *)
(* undefined, a boolean, a Node, or an array of such values.               *)
(***************************************************************************)
Arr(items) == [t |-> "arr", items |-> items]
IsArr(child) == "items" \in DOMAIN child

\* typeof child
TypeOf(child) ==
  IF "t" \in DOMAIN child
  THEN (CASE child.t = "str" -> "string"
          [] child.t = "num" -> "number"
          [] child.t = "bool" -> "boolean"
          [] child.t = "undef" -> "undefined"
          [] OTHER -> "object")
  ELSE "object"

\* String(child), for the strings and numbers createElement converts
String(child) == IF child.t = "num" THEN ToString(child.n) ELSE child.v

\* Array.prototype.flat(depth): arrays are opened while depth lasts
RECURSIVE Flat(_, _)
Flat(children, depth) ==
  IF children = <<>> THEN <<>>
  ELSE LET child == Head(children)
       IN  (IF depth > 0 /\ IsArr(child) THEN Flat(child.items, depth - 1) ELSE <<child>>)
             \o Flat(Tail(children), depth)

\* a filter that keeps only truthy children
Kept_Truthy(child) ==
  /\ child # Null /\ child # Undefined /\ child # Bool(FALSE)
  /\ child # Str("") /\ child # NumV(0)

\* the filter of createElement
Kept(child) == child # Null /\ child # Undefined /\ child # Bool(FALSE)

\* the map of createElement
Wrap(child) ==
  IF TypeOf(child) = "string" \/ TypeOf(child) = "number"
  THEN TextNode(String(child))
  ELSE child

CreateElement(tag, attrs, children) ==
  LET flatChildren == SelectSeq(Flat(children, 1), Kept)
  IN  [tag |-> tag,
       attrs |-> IF attrs = Null \/ attrs = Undefined THEN EmptyMap ELSE attrs,
       children |-> [i \in 1..Len(flatChildren) |-> Wrap(flatChildren[i])]]

MaxArgs == 2

ChildAtoms ==
  {Str("hi"), Str(""), NumV(0), NumV(42), Null, Undefined, Bool(FALSE), Bool(TRUE),
   TextNode("a"), Element("span", EmptyMap, <<>>)}

ChildArgChoices ==
  ChildAtoms \cup
  {Arr(<<>>),
   Arr(<<Str("hi"), Null>>),
   Arr(<<NumV(0), Arr(<<Str("")>>), Bool(FALSE)>>),
   Arr(<<TextNode("a"), Bool(TRUE)>>),
   Arr(<<Arr(<<Arr(<<Undefined>>)>>), Element("span", EmptyMap, <<>>)>>)}

CreateInit ==
  /\ childArgs \in SeqsUpTo(ChildArgChoices, MaxArgs)
  /\ created = Null

CreateCall(tag, attrs) ==
  /\ created = Null
  /\ created' = CreateElement(tag, attrs, childArgs)
  /\ UNCHANGED <<childArgs, patchOld, patchNew, patchDom, patchOut, renderVars, eventVars>>
  /\ UNCHANGED <<domVars, storeVars, routerVars>>

CreateNext ==
  \E tag \in {"div", "span"}, attrs \in {Undefined, Null, EmptyMap, [id |-> Str("x")]} :
    CreateCall(tag, attrs)

InitCreate == CreateInit /\ PatchIdle /\ RenderIdle /\ EventsIdle /\ DomIdle /\ StoreIdle /\ RouterIdle

SpecCreate == InitCreate /\ [][CreateNext]_vars

\* an Element variant or a Text variant
IsNode(child) ==
  \/ DOMAIN child = {"type", "value"} /\ child.type = "text"
  \/ DOMAIN child = {"tag", "attrs", "children"}

\* C18: for every children argument list (strings, numbers, Nodes, null, undefined,
\* false, true, arrays of these at any depth), each entry of the children sequence
\* of the created element is a Node.
C18_EveryChildIsNode ==
  created # Null => \A i \in 1..Len(created.children) : IsNode(created.children[i])

\* the arguments with each array argument replaced by its items, one level only
RECURSIVE OneLevel(_)
OneLevel(args) ==
  IF args = <<>> THEN <<>>
  ELSE (IF IsArr(Head(args)) THEN Head(args).items ELSE <<Head(args)>>)
         \o OneLevel(Tail(args))

Dropped(item) == item \in {Null, Undefined, Bool(FALSE)}

\* the positions of the one-level items that are not dropped, in order
Survivors(items) == SelectSeq([i \in 1..Len(items) |-> i], LAMBDA i : ~Dropped(items[i]))

\* C19: the children of the created element contain no null, undefined or false;
\* they are, in order, the one-level items of the arguments that are not dropped,
\* a string or number (0 and "" included) as the Text node of its string form and
\* anything else, Nodes and the arrays found inside array arguments alike, unchanged.
C19_ChildrenNormalised ==
  created # Null =>
    LET items == OneLevel(childArgs)
        kept == Survivors(items)
    IN  /\ \A i \in 1..Len(created.children) : ~Dropped(created.children[i])
        /\ Len(created.children) = Len(kept)
        /\ \A k \in 1..Len(kept) :
             LET item == items[kept[k]]
             IN  created.children[k] =
                   IF "t" \in DOMAIN item /\ item.t = "str" THEN TextNode(item.v)
                   ELSE IF item = NumV(0) THEN TextNode("0")
                   ELSE IF item = NumV(42) THEN TextNode("42")
                   ELSE item

\* an element was created from arguments where an array holds a 0, an array and a false,
\* next to an argument that is a Node
C19_Witness ==
  /\ created # Null
  /\ \E i, j \in 1..Len(childArgs) :
       /\ IsArr(childArgs[i])
       /\ \E a, b, c \in 1..Len(childArgs[i].items) :
            /\ childArgs[i].items[a] = NumV(0)
            /\ IsArr(childArgs[i].items[b])
            /\ childArgs[i].items[c] = Bool(FALSE)
       /\ IsNode(childArgs[j])
  /\ created.children = <<TextNode("0"), Arr(<<Str("")>>), TextNode("a")>>


(***************************************************************************)
(* reset, under SpecStore.                                                 *)
(***************************************************************************)
AfterReset == trace # <<>> /\ trace[1].ev = "reset"

\* the mapping a reset call was to install: its argument, or the construction-time
\* initial state when it had none
Installed(call) == IF call.arg = Null THEN InitialState ELSE call.arg

C20_WitnessNoArgument ==
  /\ AfterReset
  /\ trace[1].arg = Null
  /\ trace[1].pre # InitialState
  /\ Len(Notifications) >= 1


(***************************************************************************)
(* Construction over a persistence backend (state.js 20-88).  The backend  *)
(* outlives the store: a later createState finds what an earlier store, or *)
(* another program, left under persistenceKey.                             *)
(***************************************************************************)
\* a stored text that is not JSON
Garbage == <<[key |-> "{a:", value |-> 0]>>

\* JSON.parse(text) does not throw
WellFormed(text) == \A i \in 1..Len(text) : text[i].key \in StateKeys

\* a load whose failure empties the state
LoadPersistedState_Lose(s) ==
  IF s.persistence = "none" THEN s
  ELSE IF GetItemThrows(s.persistence) \/ (s.storage.saved /\ ~WellFormed(s.storage.text))
    THEN LET s1 == Alloc(s, EmptyMap)
         IN  Log([s1 EXCEPT !.state = s1.val], [ev |-> "caught", from |-> "loadPersistedState"])
  ELSE IF ~s.storage.saved THEN s
  ELSE LET s1 == Alloc(s, Merge(s.heap[s.state], Parse(s.storage.text)))
       IN  Log([s1 EXCEPT !.state = s1.val], [ev |-> "load"])

\* loadPersistedState (state.js 43-64)
LoadPersistedState(s) ==
  IF s.persistence = "none" THEN s
  \* getItem throws: the catch clause
  ELSE IF GetItemThrows(s.persistence)
    THEN Log(s, [ev |-> "caught", from |-> "loadPersistedState"])
  \* getItem gives null: if (savedState) is not taken
  ELSE IF ~s.storage.saved THEN s
  \* JSON.parse throws: the catch clause
  ELSE IF ~WellFormed(s.storage.text)
    THEN Log(s, [ev |-> "caught", from |-> "loadPersistedState"])
  \* state = { ...state, ...parsedState }
  ELSE LET s1 == Alloc(s, Merge(s.heap[s.state], Parse(s.storage.text)))
       IN  Log([s1 EXCEPT !.state = s1.val], [ev |-> "load"])

\* createState(InitialState, {persistence}) over the backend holding item
CreateStateOp(item, p) ==
  LET s0 == [heap |-> (1 :> InitialState), state |-> 1, subscribers |-> <<>>,
             computedCache |-> EmptyMap, computedProperties |-> EmptyMap,
             persistence |-> p, storage |-> item, reads |-> <<>>,
             trace |-> <<[ev |-> "createState", found |-> item]>>, handed |-> <<>>, val |-> 0]
  IN  Log(LoadPersistedState(s0), [ev |-> "created"])

Adapters == {"adapter", "getThrows", "setThrows"}

\* what the backend may hold before the first store is created
FoundItems == {NoItem, Item(Garbage), Item(Stringify([a |-> 1, b |-> 1])), Item(Stringify([b |-> 0]))}

PersistUpdates == {MapUpdate([a |-> 1]), MapUpdate([b |-> 1]), FnUpdate("bump")}

PersistInit ==
  \E item \in FoundItems, p \in Adapters :
    LET s == CreateStateOp(item, p)
    IN  /\ heap = (1 :> s.heap[s.state])
        /\ state = 1
        /\ subscribers = <<>>
        /\ computedCache = EmptyMap
        /\ computedProperties = EmptyMap
        /\ persistence = p
        /\ storage = item
        /\ held = NoHeld
        /\ trace = s.trace
        /\ reads = <<>>
        /\ leaked = FALSE

\* the application starts again: a new store over the same backend
CreateState(p) ==
  /\ trace = <<>>
  /\ Becomes(CreateStateOp(storage, p), NoHeld)
  /\ leaked' = FALSE
  /\ UNCHANGED <<domVars, routerVars, callVars>>

\* another program writes under persistenceKey
BackendWritten(item) ==
  /\ trace = <<>>
  /\ storage' = item
  /\ UNCHANGED <<heap, state, subscribers, computedCache, computedProperties, persistence,
                 held, trace, reads, leaked>>
  /\ UNCHANGED <<domVars, routerVars, callVars>>

PersistNext ==
  \/ \E update \in PersistUpdates : SetState(update)
  \/ \E newInitial \in ResetArgs : Reset(newInitial)
  \/ Observed
  \/ \E cb \in Callbacks : Subscribe(cb)
  \/ \E p \in Adapters : CreateState(p)
  \/ \E item \in {Item(Garbage)} : BackendWritten(item)

InitPersist == PersistInit /\ DomIdle /\ RouterIdle /\ CallsIdle

SpecPersist == InitPersist /\ [][PersistNext]_vars

AfterCreate == trace # <<>> /\ trace[1].ev = "createState"

\* the running call went through a catch clause of that function
Caught(from) == \E i \in 1..Len(trace) : trace[i].ev = "caught" /\ trace[i].from = from

\* C21: persistence failures never escape the store.  When getItem or setItem throws or
\* the stored text is not JSON, createState, setState and reset still complete; a failed
\* load leaves the state equal to the initial state, and a failed save still applies the
\* in-memory update and notifies the subscribers.
C21_PersistenceFailuresStayInside ==
  /\ \A i \in 1..Len(trace) : trace[i].ev # "throw"
  /\ AfterCreate =>
       /\ trace[Len(trace)].ev = "created"
       /\ (GetItemThrows(persistence) \/ trace[1].found = Item(Garbage)) =>
            heap[state] = InitialState
  /\ (AfterSetState \/ AfterReset) => trace[Len(trace)].ev = "return"
  /\ (AfterSetState /\ SetItemThrows(persistence)) =>
       /\ heap[state] = Expected(trace[1])
       /\ Len(Notifications) = Len(subscribers)
       /\ \A i \in 1..Len(Notifications) : Notifications[i].new = Expected(trace[1])
  /\ (AfterReset /\ SetItemThrows(persistence)) =>
       /\ heap[state] = Installed(trace[1])
       /\ Len(Notifications) = Len(subscribers)
       /\ \A i \in 1..Len(Notifications) : Notifications[i].new = Installed(trace[1])

\* a setState whose write failed changed the state and notified two subscribers
C21_Witness ==
  /\ AfterSetState
  /\ Caught("saveState")
  /\ heap[state] # trace[1].pre
  /\ Len(Notifications) = 2

\* a store was created over a backend holding a text that is not JSON
C21_WitnessLoad ==
  /\ AfterCreate
  /\ Caught("loadPersistedState")
  /\ trace[1].found = Item(Garbage)


\* C22: with a working backend configured, after every setState or reset the value
\* stored under persistenceKey is the serialization of the full current state, so a
\* store constructed later over the same backend starts with its initial state
\* shallow-merged with that saved snapshot, the saved keys winning.
C22_SavedSnapshotIsReloaded ==
  /\ ((AfterSetState \/ AfterReset) /\ persistence = "adapter") =>
       /\ storage = Item(Stringify(heap[state]))
       /\ LET later == CreateStateOp(storage, "adapter")
          IN  later.heap[later.state] =
                [k \in DOMAIN InitialState \cup DOMAIN heap[state] |->
                   IF k \in DOMAIN heap[state] THEN heap[state][k] ELSE InitialState[k]]
  /\ (AfterCreate /\ ~GetItemThrows(persistence) /\ trace[1].found.saved
        /\ WellFormed(trace[1].found.text)) =>
       \A k \in StateKeys :
         LET saved == {e \in {trace[1].found.text[i] : i \in 1..Len(trace[1].found.text)} : e.key = k}
         IN  IF saved # {} THEN k \in DOMAIN heap[state] /\ \E e \in saved : heap[state][k] = e.value
             ELSE IF k \in DOMAIN InitialState
                    THEN k \in DOMAIN heap[state] /\ heap[state][k] = InitialState[k]
                    ELSE k \notin DOMAIN heap[state]

\* a reset wrote a snapshot without the key of the initial state, and the store created
\* next started with that key from its initial state and the saved key beside it
C22_Witness ==
  /\ AfterCreate
  /\ trace[1].found = Item(Stringify([b |-> 1]))
  /\ heap[state] = [a |-> 0, b |-> 1]

\* a setState wrote a snapshot whose value of a key differs from the initial state's
C22_WitnessSaved ==
  /\ AfterSetState
  /\ persistence = "adapter"
  /\ "a" \in DOMAIN heap[state] /\ heap[state]["a"] # InitialState["a"]
  /\ storage.saved


(***************************************************************************)
(* Paths no route matches: a router with or without a not-found handler.   *)
(***************************************************************************)
MissPatterns == {<<"users", ":id">>}
MissPaths == {Path(<<"users", "42">>), Path(<<"lost">>)}

MissNext ==
  \/ \E pattern \in MissPatterns : Add(pattern)
  \/ \E cb \in {"onRoute"} : OnRouteChange(cb)
  \/ \E path \in MissPaths, silent \in BOOLEAN : Navigate(path, silent)
  \/ Start
  \/ HashChange
  \/ \E i \in 1..MaxOverlap, next \in {"false", "undefined"} : HookResolves(i, next)

InitMiss == RouterInit /\ DomIdle /\ StoreIdle /\ CallsIdle

SpecMiss == InitMiss /\ [][MissNext]_vars

\* the places of the log where a transition began whose path no route matches
Misses == {i \in 1..Len(rlog) : rlog[i].ev = "begin" /\ rlog[i].candidate.none}

\* the places of the log where transition t did that
PlacesOf(t, ev) == {i \in 1..Len(rlog) : rlog[i].t = t /\ rlog[i].ev = ev}

Suspended(t) == \E i \in 1..Len(pending) : pending[i].t = t

\* C23: when no registered route matches the handled path the transition is not fatal:
\* the current route becomes null, no route handler is called, the not-found handler, if
\* one is configured, is called exactly once with the path, and without one nothing is
\* called in its place and the transition goes on to its end.
C23_MissIsNotFatal ==
  /\ \A i \in Misses :
       LET t == rlog[i].t
       IN  /\ PlacesOf(t, "handler") = {}
           /\ \A j \in PlacesOf(t, "notFound") : rlog[j].path = rlog[i].path
           /\ (Suspended(t) \/ t \in Vetoed) => PlacesOf(t, "notFound") = {}
           /\ (~Suspended(t) /\ t \notin Vetoed) =>
                /\ Cardinality(PlacesOf(t, "notFound")) = (IF notFoundHandler THEN 1 ELSE 0)
                /\ Cardinality(PlacesOf(t, "afterEach")) = 1
                /\ Cardinality(PlacesOf(t, "listener")) = Len(listeners)
  /\ \A i \in Misses :
       (\A j \in (i + 1)..Len(rlog) : rlog[j].ev # "begin") => currentRoute = NoRoute

\* on a router without a not-found handler, a route being current, a navigation to a
\* path no route matches has run to its end
C23_Witness ==
  /\ ~notFoundHandler
  /\ routes # <<>>
  /\ pending = <<>>
  /\ currentRoute = NoRoute
  /\ \E i \in Misses :
       /\ ~rlog[i].previous.none
       /\ rlog[i].t \in Completed
       /\ rlog[i].path = Path(<<"lost">>)

\* on a router with a not-found handler, the handler was called for such a path
C23_WitnessHandler ==
  /\ notFoundHandler
  /\ \E i \in Misses : PlacesOf(rlog[i].t, "notFound") # {} /\ rlog[i].path = Path(<<"lost">>)


(***************************************************************************)
(* The mount controller over sequences of update and unmount calls, the    *)
(* root being an element or a text node.                                   *)
(***************************************************************************)
MountTrees ==
  {Element("div", attrs, children) :
     attrs \in {EmptyMap, [className |-> Str("c")], [onClick |-> Fn("f1")],
                [className |-> Str("d"), id |-> Str("x")]},
     children \in SeqsUpTo({TextNode("a"), Element("span", EmptyMap, <<>>)}, MaxChildren)}
  \cup {Element("span", EmptyMap, <<>>), TextNode("a"), TextNode("b")}

\* mount(vNode, container)
MountInit ==
  \E vNode \in MountTrees :
    /\ container = RenderInto(<<>>, vNode)
    /\ currentVNode = vNode
    /\ domOp = "mount"
    /\ pristine = TRUE

MountNext ==
  \/ \E newVNode \in MountTrees : Update(newVNode)
  \/ Unmount

InitMount == MountInit /\ StoreIdle /\ RouterIdle /\ CallsIdle

SpecMount == InitMount /\ [][MountNext]_vars

RECURSIVE Unclassed(_)
\* the live subtree without its class attributes
Unclassed(node) ==
  IF node.kind # "elem" THEN node
  ELSE [node EXCEPT !.attrs = [k \in DOMAIN node.attrs \ {"class"} |-> node.attrs[k]],
                    !.children = [i \in 1..Len(node.children) |-> Unclassed(node.children[i])]]

\* the live node is what the virtual node describes: kind, tag, text, attributes other
\* than class, style, listeners, and children likewise
Corresponds(node, vNode) == Unclassed(node) = Unclassed(Render(vNode))

C24_WitnessReplaced ==
  /\ domOp = "update"
  /\ pristine
  /\ Len(container) = 1
  /\ container[1].kind = "text"


(***************************************************************************)
(* The calls that check their argument first: subscribe and computed       *)
(* (state.js), onRouteChange (router.js), mount (dom.js), given any value. *)
(* A call that throws leaves the error in its subsystem's record.          *)
(***************************************************************************)
\* what application code may pass where a function is expected
NotFunctions == {Str("text"), Obj("o"), Bool(TRUE), Null, Undefined}
CallbackArgs(names) == {Fn(f) : f \in names} \cup NotFunctions

\* the container arguments of mount: an element, a selector that finds one, a selector
\* that finds none, null
ContainerArgs == {Obj("element"), Str("#app"), Str("#missing"), Null}

\* typeof container === 'string' ? document.querySelector(container) : container
\* (dom.js 230-232), as far as `if (!containerElement)` looks at it
ContainerElement(c) ==
  IF c.t = "str" THEN (IF c.v = "#app" THEN Obj("element") ELSE Null) ELSE c

\* subscribe(callback) (state.js 163-177)
SubscribeCall(callback) ==
  IF IsFunction(callback)
    THEN Subscribe(callback.v)
    ELSE /\ trace = <<>>
         /\ trace' = <<[ev |-> "throw", from |-> "subscribe"]>>
         /\ UNCHANGED <<heap, state, subscribers, computedCache, computedProperties,
                        persistence, storage, held, reads, leaked>>
         /\ UNCHANGED <<domVars, routerVars, callVars>>

\* computed(name, getter) (state.js 185-192)
ComputedCall(name, getter) ==
  IF IsFunction(getter)
    THEN Computed(name, getter.v)
    ELSE /\ trace = <<>>
         /\ trace' = <<[ev |-> "throw", from |-> "computed"]>>
         /\ UNCHANGED <<heap, state, subscribers, computedCache, computedProperties,
                        persistence, storage, held, reads, leaked>>
         /\ UNCHANGED <<domVars, routerVars, callVars>>

\* onRouteChange(callback) (router.js 169-183)
OnRouteChangeCall(callback) ==
  IF IsFunction(callback)
    THEN OnRouteChange(callback.v)
    ELSE /\ rlog' = <<[t |-> 0, ev |-> "throw", from |-> "onRouteChange"]>>
         /\ UNCHANGED <<routes, currentRoute, currentHash, location, listeners, beforeEach,
                        notFoundHandler, started, hashEvents, pending, count>>
         /\ UNCHANGED <<domVars, storeVars, callVars>>

\* mount(vNode, container) (dom.js 229-244)
MountCall(vNode, c) ==
  /\ IF ContainerElement(c) = Null
       THEN /\ domOp' = "threw"
            /\ UNCHANGED <<container, currentVNode, pristine>>
       ELSE /\ container' = RenderInto(<<>>, vNode)
            /\ currentVNode' = vNode
            /\ domOp' = "mount"
            /\ pristine' = TRUE
  /\ UNCHANGED <<storeVars, routerVars, callVars>>

MisuseTrees == {TextNode("a"), Element("span", EmptyMap, <<>>)}

MisuseNext ==
  \/ \E callback \in CallbackArgs(Callbacks) : SubscribeCall(callback)
  \/ \E name \in ComputedNames, getter \in CallbackArgs(Getters) : ComputedCall(name, getter)
  \/ \E callback \in CallbackArgs({"onRoute", "onRoute2"}) : OnRouteChangeCall(callback)
  \/ \E vNode \in MisuseTrees, c \in ContainerArgs : MountCall(vNode, c)
  \/ Observed

InitMisuse == DomIdle /\ StoreIdle /\ RouterIdle /\ CallsIdle

SpecMisuse == InitMisuse /\ [][MisuseNext]_vars

\* C25: subscribe, onRouteChange and computed called with a non-function argument, and
\* mount called with a container that cannot be resolved, each raise an error to the
\* caller and leave the subscriber list, the listener list, the computed registry and
\* the DOM exactly as they were.
C25_MisuseThrowsAndChangesNothing ==
  [][LET same == /\ subscribers' = subscribers
                 /\ listeners' = listeners
                 /\ computedProperties' = computedProperties
                 /\ container' = container
                 /\ currentVNode' = currentVNode
     IN  /\ \A x \in NotFunctions :
              /\ SubscribeCall(x) => same /\ trace' # <<>> /\ trace'[1].ev = "throw"
              /\ OnRouteChangeCall(x) => same /\ rlog' # <<>> /\ rlog'[1].ev = "throw"
              /\ \A name \in ComputedNames :
                   ComputedCall(name, x) => same /\ trace' # <<>> /\ trace'[1].ev = "throw"
         /\ \A vNode \in MisuseTrees, c \in {Str("#missing"), Null} :
              MountCall(vNode, c) => same /\ domOp' = "threw"
         /\ \A vNode \in MisuseTrees, c \in {Obj("element"), Str("#app")} :
              MountCall(vNode, c) => container' = <<Render(vNode)>> /\ domOp' = "mount"]_vars

\* mount has thrown for a container it could not resolve while a tree is mounted, a
\* subscriber, a listener and a computed property are registered, and subscribe threw
C25_Witness ==
  /\ domOp = "threw"
  /\ container # <<>>
  /\ subscribers # <<>>
  /\ listeners # <<>>
  /\ computedProperties # EmptyMap
  /\ trace # <<>> /\ trace[1].ev = "throw" /\ trace[1].from = "subscribe"
  /\ rlog # <<>>


(***************************************************************************)
(* One call of render(vNode, container) (dom.js 44-98) with any value      *)
(* given as vNode.                                                         *)
(***************************************************************************)
\* a node written by hand with no attrs and no children
BareElement(tag) == [tag |-> tag]

RenderArgs ==
  {Null, Undefined,
   \* values that are neither a Text node nor have a tag
   Bool(TRUE), Bool(FALSE), NumV(0), Str("text"), Fn("f1"), EmptyMap, Arr(<<Str("a")>>),
   [attrs |-> EmptyMap, children |-> <<TextNode("a")>>],
   \* Nodes
   TextNode("a"), Element("span", EmptyMap, <<>>), BareElement("p"),
   Element("div", [id |-> Str("x")], <<TextNode("a"), Bool(TRUE), Arr(<<Null>>)>>),
   Element("div", EmptyMap, <<TextNode("a"), Null>>)}

RenderContainers == SeqsUpTo({CreateTextNode("x"), CreateDomElement("p")}, MaxChildren)

RenderInit ==
  /\ renderNode = Null
  /\ renderInto \in RenderContainers
  /\ renderOut = renderInto
  /\ renderRet = NotCalled

\* render(vNode, container): an exception leaves the container as it was, the element
\* being appended last
RenderCall(vNode) ==
  /\ renderRet = NotCalled
  /\ renderNode' = vNode
  /\ renderRet' = Render(vNode)
  /\ renderOut' = IF Render(vNode) = RenderFailed THEN renderInto
                                                  ELSE RenderInto(renderInto, vNode)
  /\ UNCHANGED <<renderInto, patchOld, patchNew, patchDom, patchOut, childArgs, created,
                 eventVars>>
  /\ UNCHANGED <<domVars, storeVars, routerVars>>

RenderNext == \E vNode \in RenderArgs : RenderCall(vNode)

InitRender == RenderInit /\ PatchIdle /\ CreateIdle /\ EventsIdle /\ DomIdle /\ StoreIdle /\ RouterIdle

SpecRender == InitRender /\ [][RenderNext]_vars

\* null or undefined, or a value that has no tag and is not a Text node
Absent(vNode) ==
  \/ vNode \in {Null, Undefined}
  \/ DOMAIN vNode \cap {"tag", "type"} = {}

\* C26: render(node, container) with an absent node (null or undefined) or with a node
\* that has no tag and is not a Text node is a no-op: it appends nothing to container,
\* returns nothing, and does not raise.
C26_RenderOfNothingIsNoOp ==
  (renderRet # NotCalled /\ Absent(renderNode)) =>
    /\ renderOut = renderInto
    /\ renderRet # RenderFailed
    /\ renderRet = NoNode

\* render was called with a value that has no tag and is not a Text node, on a
\* container that has children, and returned null
C26_WitnessNoTag ==
  /\ renderRet = NoNode
  /\ renderNode = Bool(TRUE)
  /\ renderOut = renderInto
  /\ Len(renderInto) = 2


(***************************************************************************)
(* createRouter(options) (router.js 15-26, 214-216) given what the README  *)
(* documents (README_expl.md 128-150): a mapping of paths to handlers.     *)
(***************************************************************************)
\* the mapping of the README; a handler is named after its path
ReadmeOptions ==
  [k \in {"/", "/about", "/users/:id"} |-> Fn(k)]

\* the segments of a path written as text
SegsOf(text) ==
  CASE text = "/" -> <<"">>
    [] text = "/about" -> <<"about">>
    [] text = "/users/:id" -> <<"users", ":id">>

\* new Router(options): the fields the constructor sets, the address bar empty
CreateRouter(options) ==
  [routes |-> <<>>,
   currentRoute |-> NoRoute,
   notFoundHandler |-> "notFoundHandler" \in DOMAIN options,
   beforeEach |-> "beforeEach" \in DOMAIN options,
   listeners |-> <<>>,
   currentHash |-> DefaultRoute]

ReadmeInit ==
  LET r == CreateRouter(ReadmeOptions)
  IN  /\ routes = r.routes
      /\ currentRoute = r.currentRoute
      /\ currentHash = r.currentHash
      /\ location = Bare(<<>>)
      /\ listeners = r.listeners
      /\ beforeEach = r.beforeEach
      /\ notFoundHandler = r.notFoundHandler
      /\ started = FALSE
      /\ hashEvents = 0
      /\ pending = <<>>
      /\ count = 0
      /\ rlog = <<>>

ReadmePaths == {Path(SegsOf("/about")), Path(SegsOf("/")), Path(<<"users", "42">>)}

ReadmeNext ==
  \/ \E cb \in {"onRoute", "log"} : OnRouteChange(cb)
  \/ \E path \in ReadmePaths, silent \in BOOLEAN : Navigate(path, silent)
  \/ Start
  \/ HashChange

InitReadme == ReadmeInit /\ DomIdle /\ StoreIdle /\ CallsIdle

SpecReadme == InitReadme /\ [][ReadmeNext]_vars

\* C27: routes given to createRouter as a path-to-handler mapping, as the README
\* documents, are registered with the router: after init(), navigate('/about') invokes
\* the handler given for '/about' and getCurrentRoute() reports that route.
C27_ReadmeRoutesAreRegistered ==
  (started /\ rlog # <<>> /\ rlog[1].ev = "begin" /\ rlog[1].path = Path(SegsOf("/about"))) =>
    /\ \A k \in DOMAIN ReadmeOptions : \E i \in 1..Len(routes) : routes[i].path = SegsOf(k)
    /\ \E i \in 1..Len(rlog) :
         /\ rlog[i].ev = "handler"
         /\ rlog[i].path = Path(SegsOf("/about"))
         /\ rlog[i].handler = SegsOf("/about")
    /\ ~currentRoute.none
    /\ currentRoute.path = Path(SegsOf("/about"))


(***************************************************************************)
(* The custom event system (dom.js 340-433): Events.on, once, off, emit.   *)
(* Events.listeners is a plain object: a name that is not one of its own   *)
(* keys may still be found on Object.prototype.                            *)
(***************************************************************************)
MaxListeners == 3

\* the callbacks application code registers: two that return, one that throws, and
\* wrappers made by once (dom.js 410-419), which call their callback and then off; the
\* callback of "onceThrower" throws
EventCallbacks == {"a", "b", "thrower", "onceA", "onceB", "onceThrower"}
Throws(cb) == cb \in {"thrower", "onceThrower"}
IsOnceWrapper(cb) == cb \in {"onceA", "onceB", "onceThrower"}

EventNames == {"login", "constructor"}
\* the names Object.prototype answers to
Inherited(name) == name = "constructor"

EmitArgs == {<<>>, <<"data">>}

\* this.listeners[eventName]: the own array, the inherited value, or undefined
Lookup(ls, name) ==
  IF name \in DOMAIN ls THEN [t |-> "array", items |-> ls[name]]
  ELSE IF Inherited(name) THEN [t |-> "inherited", items |-> <<>>]
  ELSE [t |-> "undef", items |-> <<>>]

\* off(eventName, callback) on the array being walked (dom.js 372-384)
Off(arr, cb) ==
  IF IndexOf(arr, cb) # 0 THEN Splice(arr, IndexOf(arr, cb)) ELSE arr

\* the listeners object once the array of name has become arr: an empty array is deleted
Store(ls, name, arr) ==
  IF arr = <<>>
    THEN [k \in DOMAIN ls \ {name} |-> ls[k]]
    ELSE (name :> arr) @@ ls

RECURSIVE Walk(_, _, _, _, _)
\* this.listeners[eventName].forEach(callback => { try { callback(...args) } catch ... }):
\* forEach reads the length once and then visits the indices the array still has
Walk(arr, k, len, args, log) ==
  IF k > len THEN [arr |-> arr, log |-> log]
  ELSE IF k > Len(arr) THEN Walk(arr, k + 1, len, args, log)
  ELSE LET cb == arr[k]
           called == Append(log, [ev |-> "call", who |-> cb, args |-> args])
       IN  IF Throws(cb)
             THEN Walk(arr, k + 1, len, args, Append(called, [ev |-> "caught", who |-> cb]))
           ELSE IF IsOnceWrapper(cb)
             THEN Walk(Off(arr, cb), k + 1, len, args, called)
           ELSE Walk(arr, k + 1, len, args, called)

EventsInit ==
  /\ evListeners = EmptyMap
  /\ emitted = <<>>

\* on(eventName, callback) and once(eventName, callback), each callback once per name
On(name, cb) ==
  /\ LET found == Lookup(evListeners, name)
     IN  \/ /\ found.t = "inherited"
            \* this.listeners[eventName].push is not a function
            /\ emitted' = <<[ev |-> "on", name |-> name], [ev |-> "raise"]>>
            /\ UNCHANGED evListeners
         \/ /\ found.t # "inherited"
            /\ Len(found.items) < MaxListeners
            /\ \A i \in 1..Len(found.items) : found.items[i] # cb
            /\ evListeners' = Store(evListeners, name, Append(found.items, cb))
            /\ emitted' = <<>>
  /\ UNCHANGED <<patchOld, patchNew, patchDom, patchOut, childArgs, created, renderVars>>
  /\ UNCHANGED <<domVars, storeVars, routerVars>>

\* the unsubscribe closure on returned: off(eventName, callback)
Unlisten(name, cb) ==
  /\ name \in DOMAIN evListeners
  /\ evListeners' = Store(evListeners, name, Off(evListeners[name], cb))
  /\ emitted' = <<>>
  /\ UNCHANGED <<patchOld, patchNew, patchDom, patchOut, childArgs, created, renderVars>>
  /\ UNCHANGED <<domVars, storeVars, routerVars>>

\* emit(eventName, ...args) (dom.js 391-402)
Emit(name, args) ==
  /\ LET found == Lookup(evListeners, name)
         began == <<[ev |-> "emit", name |-> name, args |-> args, registered |-> found.items]>>
     IN  IF found.t = "undef"
           THEN emitted' = Append(began, [ev |-> "return"]) /\ UNCHANGED evListeners
         ELSE IF found.t = "inherited"
           \* this.listeners[eventName].forEach is not a function
           THEN emitted' = Append(began, [ev |-> "raise"]) /\ UNCHANGED evListeners
         ELSE LET done == Walk(found.items, 1, Len(found.items), args, began)
              IN  /\ emitted' = Append(done.log, [ev |-> "return"])
                  /\ evListeners' = Store(evListeners, name, done.arr)
  /\ UNCHANGED <<patchOld, patchNew, patchDom, patchOut, childArgs, created, renderVars>>
  /\ UNCHANGED <<domVars, storeVars, routerVars>>

EventsNext ==
  \/ \E name \in EventNames, cb \in EventCallbacks : On(name, cb)
  \/ \E name \in EventNames, cb \in EventCallbacks : Unlisten(name, cb)
  \/ \E name \in EventNames, args \in EmitArgs : Emit(name, args)

InitEvents ==
  EventsInit /\ PatchIdle /\ CreateIdle /\ RenderIdle /\ DomIdle /\ StoreIdle /\ RouterIdle

SpecEvents == InitEvents /\ [][EventsNext]_vars

AfterEmit == emitted # <<>> /\ emitted[1].ev = "emit"

\* the callbacks the last emit called, in order
Called == SelectSeq(emitted, LAMBDA e : e.ev = "call")

\* C28: emit(name, ...args) calls every listener registered for name exactly once, in
\* registration order, with args; a listener that throws is caught and does not stop
\* the listeners after it from being called, and emit itself never raises.
C28_EmitCallsEveryListener ==
  AfterEmit =>
    /\ Len(Called) = Len(emitted[1].registered)
    /\ \A i \in 1..Len(Called) :
         Called[i].who = emitted[1].registered[i] /\ Called[i].args = emitted[1].args
    /\ \A i \in 1..Len(emitted) : emitted[i].ev # "raise"
    /\ emitted[Len(emitted)].ev = "return"


(***************************************************************************)
(* A store whose subscribers may call setState from inside the round       *)
(* (state.js 131-156: there is no re-entrancy guard).                      *)
(***************************************************************************)
ReentrantCallbacks == {"watch", Again}

ReentrantNext ==
  \/ \E update \in Updates : SetState(update)
  \/ Observed
  \/ \E cb \in ReentrantCallbacks : Subscribe(cb)
  \/ \E cb \in ReentrantCallbacks : Unsubscribe(cb)

InitReentrant == StoreInit /\ DomIdle /\ RouterIdle /\ CallsIdle

SpecReentrant == InitReentrant /\ [][ReentrantNext]_vars

\* the places of the trace where a setState call begins, and where one returns
Begins == {i \in 1..Len(trace) : trace[i].ev = "setState"}
Returns == {i \in 1..Len(trace) : trace[i].ev = "return"}
Nested == Cardinality(Begins) = 2
\* where the nested call begins and where it returns
NestedFrom == CHOOSE i \in Begins : \A j \in Begins : j <= i
NestedTo == CHOOSE i \in Returns : \A j \in Returns : i <= j
\* the steps a whole setState call takes on this store
WholeSequence ==
  <<"setState", "merge", "clear">>
    \o (IF persistence = "none" THEN <<>> ELSE <<"persist">>)
    \o [i \in 1..Len(subscribers) |-> "notify"]
    \o <<"return">>
\* the places where subscriber number j is called
CallsOf(j) == {i \in 1..Len(trace) : trace[i].ev = "notify" /\ trace[i].index = j}

\* C29: when subscriber k calls setState during a notification round, the nested call's
\* whole sequence (merge, cache clear, persist, notification of all subscribers, return)
\* completes before subscriber k+1 of the outer round is called, so the later subscribers
\* get the nested, newer notification before the outer, older one.
C29_NestedCallRunsWholeFirst ==
  Nested =>
    LET caller == trace[NestedFrom - 1]
        inner == SubSeq(trace, NestedFrom, NestedTo)
    IN  /\ caller.ev = "notify" /\ caller.sub = Again
        /\ NestedFrom < NestedTo
        /\ [i \in 1..Len(inner) |-> inner[i].ev] = WholeSequence
        /\ \A i \in 1..Len(inner) :
             inner[i].ev = "notify" =>
               /\ inner[i].upd = AgainValues
               /\ inner[i].new = Merge(caller.new, AgainValues)
               /\ inner[i].old = caller.new
        /\ \A j \in 1..Len(subscribers) :
             /\ \E i \in CallsOf(j) : NestedFrom < i /\ i < NestedTo
             /\ j > caller.index =>
                  /\ Cardinality(CallsOf(j)) = 2
                  /\ \E i \in CallsOf(j) :
                       /\ i > NestedTo
                       /\ trace[i].upd = caller.upd
                       /\ trace[i].old = caller.old
                       /\ trace[i].new = Merge(caller.new, AgainValues)
        /\ trace[Len(trace)].ev = "return"

\* a nested call made by the first of two subscribers, on a store that persists
C29_Witness ==
  /\ Nested
  /\ persistence = "adapter"
  /\ Len(subscribers) = 2
  /\ trace[NestedFrom - 1].index = 1
  /\ trace[Len(trace)].ev = "return"

\* a nested call made by the last subscriber
C29_WitnessLast ==
  /\ Nested
  /\ Len(subscribers) = 2
  /\ trace[NestedFrom - 1].index = 2


\* the log holds a handling pass for path p that has run to its end
Handled(p) ==
  \E i, j \in 1..Len(rlog) :
    /\ rlog[i].ev = "begin" /\ rlog[i].path = p
    /\ rlog[j].ev = "afterEach" /\ rlog[j].t = rlog[i].t

\* C30: on a router on which init() has been called, a non-silent navigate(path) to a
\* path other than the current location causes one handling pass for that path: the
\* call raises no location-change signal for the pass it makes itself, and the signal's
\* callback never handles a path again that the synchronous call has already handled.
C30_NavigateIsHandledOnce ==
  [][/\ \A path \in Paths :
          (started /\ Path(path.segs) # location /\ Navigate(path, FALSE))
            => hashEvents' = hashEvents
     /\ HashChange => ~Handled(location)]_vars


\* C31: when two transitions overlap because beforeEach is pending for the first while
\* the second starts, each transition's handler is called with a currentRoute that
\* belongs to that same transition (its path is the handled path and its params are the
\* params passed first), and afterEach and the listeners of each transition are given
\* that transition's own route.
C31_OverlapKeepsOwnRoute ==
  \A i \in 1..Len(rlog) :
    /\ (rlog[i].ev = "handler") =>
         (/\ ~rlog[i].route.none
          /\ rlog[i].route.path = rlog[i].path
          /\ rlog[i].route.params = rlog[i].params)
    /\ (rlog[i].ev \in {"afterEach", "listener"}) =>
         (rlog[i].route = rlog[BeginOf(rlog[i].t)].candidate)


(***************************************************************************)
(* A store whose subscribers may unsubscribe from inside the round         *)
(* (state.js 153 walks the live array, 170-176 splices it).                *)
(***************************************************************************)
LeavingCallbacks == {"watch", "leave", "oust"}

LeaveNext ==
  \/ \E update \in {MapUpdate([a |-> 1]), MapUpdate([b |-> 0])} : SetState(update)
  \/ Observed
  \/ \E cb \in LeavingCallbacks : Subscribe(cb)
  \/ \E cb \in LeavingCallbacks : Unsubscribe(cb)

InitLeave == StoreInit /\ DomIdle /\ RouterIdle /\ CallsIdle

SpecLeave == InitLeave /\ [][LeaveNext]_vars

\* how many times cb is in the list
Times(list, cb) == Cardinality({i \in 1..Len(list) : list[i] = cb})
\* how many times the last setState called cb
NotifiedTimes(cb) ==
  Cardinality({i \in 1..Len(trace) : trace[i].ev = "notify" /\ trace[i].sub = cb})

\* C32: when a subscriber unsubscribes itself or an earlier subscriber while it is being
\* notified, every callback that is still subscribed gets that notification: removal
\* during the loop does not make the loop skip the next callback in the list.
C32_RemovalSkipsNobody ==
  (trace # <<>> /\ trace[1].ev = "setState") =>
    \A cb \in LeavingCallbacks : NotifiedTimes(cb) >= Times(subscribers, cb)


\* C33: in every subscriber call made by setState the first argument (the new state) is
\* the second (the old state) shallow-merged with the third (the applied update), also
\* for subscribers called after another subscriber re-entered setState earlier in the
\* same round.
C33_NewIsOldMergedWithUpdate ==
  (trace # <<>> /\ trace[1].ev = "setState") =>
    \A i \in 1..Len(trace) :
      (trace[i].ev = "notify") => (trace[i].new = Merge(trace[i].old, trace[i].upd))


(***************************************************************************)
(* patch called again with the tree the live subtree was rendered from,    *)
(* the trees being made by createElement from its children arguments.      *)
(***************************************************************************)
RepatchChildren ==
  {Str("hi"), Bool(TRUE), Element("span", [onClick |-> Fn("f1")], <<TextNode("a")>>)}

RepatchTrees ==
  {CreateElement("div", attrs, children) :
     attrs \in {EmptyMap, [className |-> Str("c")], [style |-> Obj("s1")],
                [onClick |-> Fn("f2"), onInput |-> Fn("f1")]},
     children \in SeqsUpTo(RepatchChildren, MaxArgs)}

\* render(tree, parent) has run
RepatchInit ==
  \E tree \in RepatchTrees :
    /\ patchDom = Traced(Render(tree), <<>>)
    /\ patchOld = tree
    /\ patchNew = Null
    /\ patchOut = NoNode

RepatchNext == \E newVNode \in RepatchTrees : PatchCall(newVNode)

InitRepatch ==
  RepatchInit /\ CreateIdle /\ RenderIdle /\ EventsIdle /\ DomIdle /\ StoreIdle /\ RouterIdle

SpecRepatch == InitRepatch /\ [][RepatchNext]_vars

\* patch was called with a new tree identical to the old one, the one the live subtree
\* was rendered from
SameTreePatch == patchNew # Null /\ patchOld # Null /\ patchNew = patchOld

\* C34: patching is idempotent: patch(n2, n1, dom), n2 structurally identical to n1 and
\* dom rendered from n1, leaves the tags, attributes, styles, text values, children and
\* the set and order of the registered listeners of the live subtree exactly as they
\* were, although every event handler is re-bound.
C34_PatchIsIdempotent ==
  SameTreePatch =>
    /\ patchOut # PatchFailed
    /\ SameNodes(patchOut, patchDom)
    /\ Plain(patchOut) = Plain(patchDom)

\* the same tree was patched in: a root with two handlers and a child element with a
\* handler, all of them re-bound
C34_Witness ==
  /\ SameTreePatch
  /\ patchOut # PatchFailed
  /\ Len(patchDom.listeners) = 2
  /\ \E i \in 1..Len(patchNew.children) : ~IsText(patchNew.children[i])
  /\ \E i \in 1..Len(CallsIn(patchOut)) : CallsIn(patchOut)[i][1] = "addEventListener"


(***************************************************************************)
(* Patterns that combine named segments and the wildcard.                  *)
(***************************************************************************)
WildPatterns ==
  {<<"files", "**", ":id">>, <<"files", ":id", "**">>, <<"files", ":id", ":tab">>}
WildPaths ==
  {Path(<<"files", "a", "b", "7">>), Path(<<"files", "7", "a%20b">>), Path(<<"lost">>)}

WildNext ==
  \/ \E pattern \in WildPatterns : Add(pattern)
  \/ \E path \in WildPaths, silent \in BOOLEAN : Navigate(path, silent)
  \/ Start
  \/ HashChange
  \/ \E i \in 1..MaxOverlap, next \in {"false", "undefined"} : HookResolves(i, next)

InitWild == RouterInit /\ DomIdle /\ StoreIdle /\ CallsIdle

SpecWild == InitWild /\ [][WildNext]_vars

\* the segments of a pattern that capture, in order: the groups of its regexp
Groups(pattern) == SelectSeq(pattern, LAMBDA seg : IsParam(seg) \/ seg = "**")

\* every declared parameter with the text captured by its own group
OwnParams(route, path) ==
  LET caps == RegexpMatch(route, path).caps
      groups == Groups(route.path)
  IN  [name \in {route.paramNames[i] : i \in 1..Len(route.paramNames)} |->
         caps[CHOOSE g \in 1..Len(groups) :
                /\ IsParam(groups[g]) /\ ParamName(groups[g]) = name
                /\ \A h \in (g + 1)..Len(groups) :
                     ~(IsParam(groups[h]) /\ ParamName(groups[h]) = name)]]

\* C35: for a pattern that combines :name segments and a ** wildcard in any order, a
\* successful match maps every parameter name to the decoded text captured at that
\* parameter's own position in the pattern, and params has no key other than the
\* declared parameter names.
C35_ParamsComeFromOwnPosition ==
  /\ \A path \in WildPaths :
       LET m == Match(routes, path)
       IN  m.found => m.params = OwnParams(routes[m.index], path)
  /\ \A i \in 1..Len(rlog) :
       (rlog[i].ev = "handler") =>
         (\E r \in 1..Len(routes) :
            /\ routes[r].handler = rlog[i].handler
            /\ rlog[i].params = OwnParams(routes[r], rlog[i].path))


\* the transitions of the log, and those of them that were not vetoed
Started == {rlog[i].t : i \in {j \in 1..Len(rlog) : rlog[j].ev = "begin"}}
LastKept == CHOOSE t \in Started \ Vetoed : \A u \in Started \ Vetoed : u <= t
\* the places of the log where a route handler ran
HandlerRuns == {i \in 1..Len(rlog) : rlog[i].ev = "handler"}

\* C36: once every pending transition has settled, getCurrentRoute() is the route of the
\* most recently started transition that was not vetoed, and the route handler that ran
\* last is the handler of that same route, whatever the order in which the overlapping
\* beforeEach hooks resolved.
C36_SettledRouterFollowsLastNavigation ==
  (pending = <<>> /\ Started \ Vetoed # {}) =>
    LET b == rlog[BeginOf(LastKept)]
    IN  /\ currentRoute = b.candidate
        /\ ~b.candidate.none =>
             (/\ HandlerRuns # {}
              /\ \A i \in HandlerRuns : i <= (CHOOSE j \in HandlerRuns : rlog[j].t = LastKept))


\* C37: after computed(name, getter2) replaces an existing computed definition, the next
\* getState(name) returns getter2 applied to the current state, even if a value of the
\* earlier definition was cached and no setState or reset happened in between: a cached
\* computed value always equals the currently registered getter applied to the current
\* state, and so does every value a read returns.
C37_CacheFollowsRegisteredGetter ==
  /\ \A name \in DOMAIN computedCache :
       computedCache[name] = ApplyGetter(computedProperties[name], heap[state])
  /\ \A i \in 1..Len(reads) : reads[i].val = reads[i].now


(***************************************************************************)
(* A store with a subscriber that throws (state.js 153, 206-207: the loop  *)
(* has no try block).                                                      *)
(***************************************************************************)
ThrowingCallbacks == {"watch", Thrower}

ThrowNext ==
  \/ \E update \in Updates : SetState(update)
  \/ \E newInitial \in ResetArgs : Reset(newInitial)
  \/ Observed
  \/ GetState
  \/ \E name \in ComputedNames : GetComputed(name)
  \/ \E cb \in ThrowingCallbacks : Subscribe(cb)
  \/ \E cb \in ThrowingCallbacks : Unsubscribe(cb)
  \/ \E name \in ComputedNames, getter \in {"sum"} : Computed(name, getter)

InitThrow == StoreInit /\ persistence = "adapter" /\ DomIdle /\ RouterIdle /\ CallsIdle

SpecThrow == InitThrow /\ [][ThrowNext]_vars

\* the place where a subscriber threw during the last call, 0 when none did
ThrowAt == PlaceOf("throw")

\* C38: when a subscriber throws during a setState notification round the exception
\* propagates to the caller of setState with no rollback: the merge, the computed-cache
\* clear and the persistence write stay applied, so a getState() after it returns the
\* merged state, although the subscribers later in the list were never notified of it.
C38_ThrowPropagatesWithoutRollback ==
  (AfterSetState /\ ThrowAt # 0) =>
    LET snapshot == GetStateAll(Cur)
    IN  /\ trace[Len(trace)].ev = "raised"
        /\ \A i \in 1..Len(trace) : trace[i].ev # "return"
        /\ \A i \in (ThrowAt + 1)..Len(trace) : trace[i].ev # "notify"
        /\ Len(Notifications) = IndexOf(subscribers, Thrower)
        /\ PlaceOf("merge") # 0 /\ PlaceOf("clear") # 0 /\ PlaceOf("persist") # 0
        /\ snapshot.heap[snapshot.val] = Expected(trace[1])
        /\ computedCache = EmptyMap
        /\ storage = Item(Stringify(Expected(trace[1])))

\* a subscriber threw while another was subscribed after it, a computed value being
\* cached before the call, and the call changed the state
C38_Witness ==
  /\ AfterSetState
  /\ ThrowAt # 0
  /\ Len(subscribers) = 2
  /\ subscribers[1] = Thrower
  /\ subscribers[2] = "watch"
  /\ trace[PlaceOf("clear")].dropped = {"total"}
  /\ Expected(trace[1]) # trace[1].pre


\* what the log, after the step, holds of the transition the step began
Begun == SelectSeq(rlog', LAMBDA e : e.t = count')
\* the calls among them that handle the route
HandlingCalls(evs) ==
  SelectSeq(evs, LAMBDA e : e.ev \in {"handler", "notFound", "afterEach", "listener"})

\* C39: route handling runs to completion inside navigate exactly when no beforeEach
\* hook is configured: without the hook, when a non-silent navigate(path) returns the
\* current route is set and the handler (or the not-found handler), afterEach and all
\* listeners have run; with a hook none of them has run when navigate returns, while
\* the current route is already the candidate.
C39_NavigateCompletesWithoutHook ==
  [][\A path \in MissPaths :
       Navigate(path, FALSE) =>
         /\ Begun[1].ev = "begin" /\ Begun[1].path = Path(path.segs)
         /\ currentRoute' = Begun[1].candidate
         /\ ~beforeEach =>
              (/\ pending' = pending
               /\ HandlingCalls(Begun) =
                    (IF Begun[1].candidate.none /\ ~notFoundHandler
                       THEN Tail(CallsAfterHook(Begun[1]))
                       ELSE CallsAfterHook(Begun[1])))
         /\ beforeEach =>
              (/\ HandlingCalls(Begun) = <<>>
               /\ Begun[Len(Begun)].ev = "beforeEach"
               /\ Len(pending') = Len(pending) + 1)]_vars

\* navigate has returned on a router with a hook and a listener: the matched route is
\* current and the transition waits for its hook
C39_Witness ==
  /\ beforeEach
  /\ listeners # <<>>
  /\ Len(pending) = 1
  /\ ~currentRoute.none
  /\ currentRoute.path = pending[1].path
  /\ rlog[Len(rlog)].ev = "beforeEach"

\* navigate has returned on a router without a hook: the handler and the listener ran
C39_WitnessNoHook ==
  /\ ~beforeEach
  /\ ~currentRoute.none
  /\ rlog # <<>>
  /\ rlog[Len(rlog)].ev = "listener"
  /\ \E i \in 1..Len(rlog) : rlog[i].ev = "handler"


\* the listeners registered for the name of the last emit, after it
StillRegistered ==
  IF emitted[1].name \in DOMAIN evListeners THEN evListeners[emitted[1].name] ELSE <<>>

\* C40: a listener registered with once(name, cb) is invoked by the first emit(name)
\* after its registration and by no later emit, and is no longer registered after that
\* first emit, for every sequence of on, off, once and emit calls, also when cb throws.
C40_OnceListenerRunsOnce ==
  AfterEmit =>
    \A i \in 1..Len(emitted[1].registered) :
      LET wrapper == emitted[1].registered[i]
      IN  IsOnceWrapper(wrapper) =>
            /\ Cardinality({j \in 1..Len(Called) : Called[j].who = wrapper}) = 1
            /\ \A j \in 1..Len(StillRegistered) : StillRegistered[j] # wrapper

====
